---- MODULE Spec2Model ----
(***************************************************************************)
(* The window-manager store of src/src/store.ts (createWindowManagerStore) *)
(* as a state machine.  The store state is the observable                   *)
(* { windows, containerSize, nextZIndex }.  In Spec, SpecStack and SpecBand  *)
(* the store is called from outside, one call after the other, and a call   *)
(* is one step from the state it reads to the state its state$.set calls    *)
(* leave.  SpecAtomic takes every state$.set as a step of its own, with the *)
(* subscribers of the observable running between the two.                   *)
(* `props` of a window is an opaque payload no action reads: it is left out.*)
(***************************************************************************)
EXTENDS Integers, Sequences, FiniteSets, TLC

VARIABLES
    windows,        \* state$.windows: sequence of AppWindow records
    containerSize,  \* state$.containerSize
    nextZIndex,     \* state$.nextZIndex
    lastCall,       \* the store action called last, with its id argument
    calls,          \* number of store calls (SpecGesture: UI events) so far
    pending,        \* SpecAtomic: the calls that have set state$.windows and
                    \* have yet to set state$.nextZIndex, innermost last
    isDragging,     \* Window component state isDragging, per window id
    dragStart,      \* Window component state dragStart, per window id
    listeners,      \* the mousemove/mouseup listeners on document, in the
                    \* order they were added
    event,          \* SpecGesture: the UI event handled last
    issued          \* SpecGesture: the store calls that event issued

storeVars == <<windows, containerSize, nextZIndex>>
uiVars == <<isDragging, dragStart, listeners, event, issued>>
vars == <<windows, containerSize, nextZIndex, lastCall, calls, pending,
          isDragging, dragStart, listeners, event, issued>>

(***************************************************************************)
(* Bounds of the model.                                                     *)
(***************************************************************************)
MaxCalls == 4         \* Spec: call sequences of at most this length
MaxStackCalls == 8    \* SpecStack: call sequences of at most this length
MaxBandCalls == 34    \* SpecBand: call sequences of at most this length
MaxAtomicCalls == 4   \* SpecAtomic: at most this many calls are started
MaxDepth == 2         \* SpecAtomic: calls nested in subscribers, at most
MaxEvents == 5        \* SpecGesture: event sequences of at most this length
MaxKeyEvents == 2     \* SpecKeys: event sequences of at most this length

\* Program constants.
MinWidth == 100        \* resize: if (newSize.width < 100) newSize.width = 100
MinHeight == 50        \* resize: if (newSize.height < 50) newSize.height = 50
PinnedOffset == 1000   \* pin: highestZIndex + 1000
RenderOffset == 10000  \* Window.defaultStyle: zIndex + 10000 when pinned

Nil == [nil |-> TRUE]   \* undefined: find without a match, an absent option
NoId == "none"          \* no id: options.id absent, a call that takes none
\* no UI event has been handled
NoEvent == [type |-> "none", id |-> NoId, direction |-> "none",
            pointer |-> [x |-> 0, y |-> 0], key |-> "none", shiftKey |-> FALSE]
Ids == {"w1", "w2"}
StackIds == {"w1", "w2", "w3"}
Types == {"calc", "notes"}

DefaultPosition == [x |-> 100, y |-> 100]
DefaultSize == [width |-> 400, height |-> 300]
Positions == {DefaultPosition, [x |-> 0, y |-> 0]}
Sizes == {DefaultSize, [width |-> 100, height |-> 50]}
ContainerSizes == {[width |-> 800, height |-> 600]}

\* ResizeDirection
Directions == {"top", "bottom", "left", "right",
               "top-left", "top-right", "bottom-left", "bottom-right"}
\* clientX, clientY of the pointer events of SpecGesture
Pointers == {[x |-> 0, y |-> 0], [x |-> 450, y |-> 300],
             [x |-> 460, y |-> 310]}
\* options of the windows of SpecGesture: the defaults, and a window at the
\* origin with a size below the minimum
GestureOptions ==
    {[position |-> Nil, size |-> Nil],
     [position |-> [x |-> 0, y |-> 0], size |-> [width |-> 80, height |-> 40]]}
ArrowKeys == {"ArrowUp", "ArrowDown", "ArrowLeft", "ArrowRight"}
\* options of the windows of SpecKeys: those of SpecGesture, and a window of
\* exactly the minimum size
KeyOptions ==
    GestureOptions
      \cup {[position |-> Nil, size |-> [width |-> 100, height |-> 50]]}

(***************************************************************************)
(* Helpers over the window array.                                           *)
(***************************************************************************)
Max(a, b) == IF a > b THEN a ELSE b

\* windows.reduce((max, window) => Math.max(max, window.zIndex), 0)
RECURSIVE getHighestZIndex(_)
getHighestZIndex(ws) ==
    IF ws = <<>> THEN 0
    ELSE Max(getHighestZIndex(SubSeq(ws, 1, Len(ws) - 1)), ws[Len(ws)].zIndex)

\* windows.find((w) => w.id === id): the first match, Nil when there is none
find(ws, id) ==
    IF \E i \in 1..Len(ws) : ws[i].id = id
    THEN ws[CHOOSE i \in 1..Len(ws) :
                /\ ws[i].id = id
                /\ \A j \in 1..(i - 1) : ws[j].id # id]
    ELSE Nil

\* Window.defaultStyle.zIndex: the key the window is painted with
stackingKey(w) == IF w.isPinned THEN w.zIndex + RenderOffset ELSE w.zIndex

\* generateWindowId(): a timestamp and a random suffix; any id may come out
generateWindowId == Ids

\* The store state as one value, and the state after a call that sets parts.
State == [windows |-> windows, containerSize |-> containerSize,
          nextZIndex |-> nextZIndex]

Present(id) == \E i \in 1..Len(windows) : windows[i].id = id

Win(id) == windows[CHOOSE i \in 1..Len(windows) : windows[i].id = id]

(***************************************************************************)
(* The store actions, each as the state it leaves from the state s it reads.*)
(***************************************************************************)
setContainerSize(s, size) == [s EXCEPT !.containerSize = size]

\* open(type, props, options): id is options.id || generateWindowId(),
\* position and size are Nil when the option is absent.
open_keepsFocus(s, type, id, position, size) ==
    IF find(s.windows, id) # Nil
    THEN s
    ELSE [s EXCEPT !.windows = Append(s.windows,
                       [id |-> id, type |-> type,
                        position |-> IF position = Nil THEN DefaultPosition ELSE position,
                        size |-> IF size = Nil THEN DefaultSize ELSE size,
                        state |-> "normal", zIndex |-> s.nextZIndex,
                        isFocused |-> TRUE, isPinned |-> FALSE]),
                   !.nextZIndex = s.nextZIndex + 1]

open_noIdCheck(s, type, id, position, size) ==
    [s EXCEPT !.windows = Append([i \in 1..Len(s.windows) |->
                                     [s.windows[i] EXCEPT !.isFocused = FALSE]],
                       [id |-> id, type |-> type,
                        position |-> IF position = Nil THEN DefaultPosition ELSE position,
                        size |-> IF size = Nil THEN DefaultSize ELSE size,
                        state |-> "normal", zIndex |-> s.nextZIndex,
                        isFocused |-> TRUE, isPinned |-> FALSE]),
               !.nextZIndex = s.nextZIndex + 1]

open_zFromHighest(s, type, id, position, size) ==
    IF find(s.windows, id) # Nil
    THEN s
    ELSE [s EXCEPT !.windows = Append([i \in 1..Len(s.windows) |->
                                          [s.windows[i] EXCEPT !.isFocused = FALSE]],
                       [id |-> id, type |-> type,
                        position |-> IF position = Nil THEN DefaultPosition ELSE position,
                        size |-> IF size = Nil THEN DefaultSize ELSE size,
                        state |-> "normal",
                        zIndex |-> getHighestZIndex(s.windows) + 1,
                        isFocused |-> TRUE, isPinned |-> FALSE]),
                   !.nextZIndex = s.nextZIndex + 1]

open_dupRefocus(s, type, id, position, size) ==
    IF find(s.windows, id) # Nil
    THEN [s EXCEPT !.windows = [i \in 1..Len(s.windows) |->
                        [s.windows[i] EXCEPT !.isFocused = (s.windows[i].id = id)]]]
    ELSE [s EXCEPT !.windows = Append([i \in 1..Len(s.windows) |->
                                          [s.windows[i] EXCEPT !.isFocused = FALSE]],
                       [id |-> id, type |-> type,
                        position |-> IF position = Nil THEN DefaultPosition ELSE position,
                        size |-> IF size = Nil THEN DefaultSize ELSE size,
                        state |-> "normal", zIndex |-> s.nextZIndex,
                        isFocused |-> TRUE, isPinned |-> FALSE]),
                   !.nextZIndex = s.nextZIndex + 1]

open(s, type, id, position, size) ==
    IF find(s.windows, id) # Nil
    THEN s
    ELSE LET newWindow ==
                 [id |-> id,
                  type |-> type,
                  position |-> IF position = Nil THEN DefaultPosition ELSE position,
                  size |-> IF size = Nil THEN DefaultSize ELSE size,
                  state |-> "normal",
                  zIndex |-> s.nextZIndex,
                  isFocused |-> TRUE,
                  isPinned |-> FALSE]
             unfocus(w) == [w EXCEPT !.isFocused = FALSE]
         IN [s EXCEPT !.windows =
                          Append([i \in 1..Len(s.windows) |-> unfocus(s.windows[i])],
                                 newWindow),
                      !.nextZIndex = s.nextZIndex + 1]

close_refocus(s, id) ==
    LET rest == SelectSeq(s.windows, LAMBDA w : w.id # id)
        target == find(s.windows, id)
    IN IF target # Nil /\ target.isFocused
       THEN [s EXCEPT !.windows = [i \in 1..Len(rest) |->
                                      [rest[i] EXCEPT !.isFocused = (i = Len(rest))]]]
       ELSE [s EXCEPT !.windows = rest]

close(s, id) ==
    [s EXCEPT !.windows = SelectSeq(s.windows, LAMBDA w : w.id # id)]

focus_keepsOthers(s, id) ==
    LET targetWindow == find(s.windows, id) IN
    IF targetWindow = Nil THEN s
    ELSE IF ~targetWindow.isFocused
    THEN LET newZIndex == getHighestZIndex(s.windows) + 1
             upd(w) == [w EXCEPT !.isFocused = (@ \/ w.id = id),
                                 !.zIndex = IF w.id = id THEN newZIndex ELSE @]
         IN [s EXCEPT !.windows = [i \in 1..Len(s.windows) |-> upd(s.windows[i])],
                      !.nextZIndex = newZIndex + 1]
    ELSE s

focus_fromCounter(s, id) ==
    LET targetWindow == find(s.windows, id) IN
    IF targetWindow = Nil THEN s
    ELSE IF ~targetWindow.isFocused
    THEN LET newZIndex == s.nextZIndex
             upd(w) == [w EXCEPT !.isFocused = (w.id = id),
                                 !.zIndex = IF w.id = id THEN newZIndex ELSE @]
         IN [s EXCEPT !.windows = [i \in 1..Len(s.windows) |-> upd(s.windows[i])],
                      !.nextZIndex = newZIndex + 1]
    ELSE s

focus_noGuard(s, id) ==
    LET targetWindow == find(s.windows, id) IN
    IF targetWindow = Nil THEN s
    ELSE LET newZIndex == getHighestZIndex(s.windows) + 1
             upd(w) == [w EXCEPT !.isFocused = (w.id = id),
                                 !.zIndex = IF w.id = id THEN newZIndex ELSE @]
         IN [s EXCEPT !.windows = [i \in 1..Len(s.windows) |-> upd(s.windows[i])],
                      !.nextZIndex = newZIndex + 1]

focus_noTargetCheck(s, id) ==
    LET targetWindow == find(s.windows, id) IN
    IF targetWindow # Nil /\ targetWindow.isFocused THEN s
    ELSE LET newZIndex == getHighestZIndex(s.windows) + 1
             upd(w) == [w EXCEPT !.isFocused = (w.id = id),
                                 !.zIndex = IF w.id = id THEN newZIndex ELSE @]
         IN [s EXCEPT !.windows = [i \in 1..Len(s.windows) |-> upd(s.windows[i])],
                      !.nextZIndex = newZIndex + 1]

focus(s, id) ==
    LET targetWindow == find(s.windows, id) IN
    IF targetWindow = Nil THEN s
    ELSE IF ~targetWindow.isFocused
    THEN LET highestZIndex == getHighestZIndex(s.windows)
             newZIndex == highestZIndex + 1
             upd(w) == [w EXCEPT !.isFocused = (w.id = id),
                                 !.zIndex = IF w.id = id THEN newZIndex ELSE @]
         IN [s EXCEPT !.windows = [i \in 1..Len(s.windows) |-> upd(s.windows[i])],
                      !.nextZIndex = newZIndex + 1]
    ELSE s

move_onlyNormal(s, id, position) ==
    LET upd(w) == IF w.id = id /\ w.state = "normal"
                  THEN [w EXCEPT !.position = position] ELSE w
    IN [s EXCEPT !.windows = [i \in 1..Len(s.windows) |-> upd(s.windows[i])]]

move(s, id, position) ==
    LET upd(w) == IF w.id = id THEN [w EXCEPT !.position = position] ELSE w
    IN [s EXCEPT !.windows = [i \in 1..Len(s.windows) |-> upd(s.windows[i])]]

resize_absentHitsAll(s, id, size) ==
    LET upd(w) == IF w.id = id \/ find(s.windows, id) = Nil
                  THEN [w EXCEPT !.size = size]
                  ELSE w
    IN [s EXCEPT !.windows = [i \in 1..Len(s.windows) |-> upd(s.windows[i])]]

resize(s, id, size) ==
    LET upd(w) == IF w.id = id THEN [w EXCEPT !.size = size] ELSE w
    IN [s EXCEPT !.windows = [i \in 1..Len(s.windows) |-> upd(s.windows[i])]]

maximize(s, id) ==
    LET upd(w) == IF w.id = id THEN [w EXCEPT !.state = "maximized"] ELSE w
    IN [s EXCEPT !.windows = [i \in 1..Len(s.windows) |-> upd(s.windows[i])]]

minimize_unfocus(s, id) ==
    LET upd(w) == IF w.id = id
                  THEN [w EXCEPT !.state = "minimized", !.isFocused = FALSE]
                  ELSE w
    IN [s EXCEPT !.windows = [i \in 1..Len(s.windows) |-> upd(s.windows[i])]]

minimize(s, id) ==
    LET upd(w) == IF w.id = id THEN [w EXCEPT !.state = "minimized"] ELSE w
    IN [s EXCEPT !.windows = [i \in 1..Len(s.windows) |-> upd(s.windows[i])]]

fullscreen(s, id) ==
    LET upd(w) == IF w.id = id THEN [w EXCEPT !.state = "fullscreen"] ELSE w
    IN [s EXCEPT !.windows = [i \in 1..Len(s.windows) |-> upd(s.windows[i])]]

unfullscreen_onlyFullscreen(s, id) ==
    LET upd(w) == IF w.id = id /\ w.state = "fullscreen"
                  THEN [w EXCEPT !.state = "normal"] ELSE w
    IN [s EXCEPT !.windows = [i \in 1..Len(s.windows) |-> upd(s.windows[i])]]

unfullscreen(s, id) ==
    LET upd(w) == IF w.id = id THEN [w EXCEPT !.state = "normal"] ELSE w
    IN [s EXCEPT !.windows = [i \in 1..Len(s.windows) |-> upd(s.windows[i])]]

pin_overNonPinned(s, id) ==
    LET targetWindow == find(s.windows, id) IN
    IF targetWindow = Nil THEN s
    ELSE IF targetWindow.isPinned THEN s
    ELSE LET highestZIndex ==
                 getHighestZIndex(SelectSeq(s.windows, LAMBDA w : ~w.isPinned))
             newZIndex == highestZIndex + PinnedOffset
             upd(w) == IF w.id = id
                       THEN [w EXCEPT !.isPinned = TRUE, !.zIndex = newZIndex]
                       ELSE w
         IN [s EXCEPT !.windows = [i \in 1..Len(s.windows) |-> upd(s.windows[i])],
                      !.nextZIndex = newZIndex + 1]

pin_nextToBand(s, id) ==
    LET targetWindow == find(s.windows, id) IN
    IF targetWindow = Nil THEN s
    ELSE IF targetWindow.isPinned THEN s
    ELSE LET highestZIndex == getHighestZIndex(s.windows)
             newZIndex == IF \E i \in 1..Len(s.windows) : s.windows[i].isPinned
                          THEN highestZIndex + 1
                          ELSE highestZIndex + PinnedOffset
             upd(w) == IF w.id = id
                       THEN [w EXCEPT !.isPinned = TRUE, !.zIndex = newZIndex]
                       ELSE w
         IN [s EXCEPT !.windows = [i \in 1..Len(s.windows) |-> upd(s.windows[i])],
                      !.nextZIndex = newZIndex + 1]

pin_focuses(s, id) ==
    LET targetWindow == find(s.windows, id) IN
    IF targetWindow = Nil THEN s
    ELSE IF targetWindow.isPinned THEN s
    ELSE LET highestZIndex == getHighestZIndex(s.windows)
             newZIndex == highestZIndex + PinnedOffset
             upd(w) == IF w.id = id
                       THEN [w EXCEPT !.isPinned = TRUE, !.zIndex = newZIndex,
                                      !.isFocused = TRUE]
                       ELSE [w EXCEPT !.isFocused = FALSE]
         IN [s EXCEPT !.windows = [i \in 1..Len(s.windows) |-> upd(s.windows[i])],
                      !.nextZIndex = newZIndex + 1]

pin(s, id) ==
    LET targetWindow == find(s.windows, id) IN
    IF targetWindow = Nil THEN s
    ELSE IF targetWindow.isPinned THEN s
    ELSE LET highestZIndex == getHighestZIndex(s.windows)
             newZIndex == highestZIndex + PinnedOffset
             upd(w) == IF w.id = id
                       THEN [w EXCEPT !.isPinned = TRUE, !.zIndex = newZIndex]
                       ELSE w
         IN [s EXCEPT !.windows = [i \in 1..Len(s.windows) |-> upd(s.windows[i])],
                      !.nextZIndex = newZIndex + 1]

unpin_counterAtNew(s, id) ==
    LET targetWindow == find(s.windows, id) IN
    IF targetWindow = Nil THEN s
    ELSE IF ~targetWindow.isPinned THEN s
    ELSE LET nonPinnedWindows ==
                 SelectSeq(s.windows, LAMBDA w : w.id # id /\ ~w.isPinned)
             newZIndex == getHighestZIndex(nonPinnedWindows) + 1
             upd(w) == IF w.id = id
                       THEN [w EXCEPT !.isPinned = FALSE, !.zIndex = newZIndex]
                       ELSE w
         IN [s EXCEPT !.windows = [i \in 1..Len(s.windows) |-> upd(s.windows[i])],
                      !.nextZIndex = newZIndex]

unpin_overAllOthers(s, id) ==
    LET targetWindow == find(s.windows, id) IN
    IF targetWindow = Nil THEN s
    ELSE IF ~targetWindow.isPinned THEN s
    ELSE LET others == SelectSeq(s.windows, LAMBDA w : w.id # id)
             newZIndex == (IF Len(others) > 0 THEN getHighestZIndex(others) ELSE 0) + 1
             upd(w) == IF w.id = id
                       THEN [w EXCEPT !.isPinned = FALSE, !.zIndex = newZIndex]
                       ELSE w
         IN [s EXCEPT !.windows = [i \in 1..Len(s.windows) |-> upd(s.windows[i])],
                      !.nextZIndex = newZIndex + 1]

unpin_atHighest(s, id) ==
    LET targetWindow == find(s.windows, id) IN
    IF targetWindow = Nil THEN s
    ELSE IF ~targetWindow.isPinned THEN s
    ELSE LET nonPinnedWindows ==
                 SelectSeq(s.windows, LAMBDA w : w.id # id /\ ~w.isPinned)
             newZIndex == IF Len(nonPinnedWindows) > 0
                          THEN getHighestZIndex(nonPinnedWindows) ELSE 1
             upd(w) == IF w.id = id
                       THEN [w EXCEPT !.isPinned = FALSE, !.zIndex = newZIndex]
                       ELSE w
         IN [s EXCEPT !.windows = [i \in 1..Len(s.windows) |-> upd(s.windows[i])],
                      !.nextZIndex = newZIndex + 1]

unpin(s, id) ==
    LET targetWindow == find(s.windows, id) IN
    IF targetWindow = Nil THEN s
    ELSE IF ~targetWindow.isPinned THEN s
    ELSE LET nonPinnedWindows ==
                 SelectSeq(s.windows, LAMBDA w : w.id # id /\ ~w.isPinned)
             highestNonPinnedZIndex ==
                 IF Len(nonPinnedWindows) > 0
                 THEN getHighestZIndex(nonPinnedWindows) ELSE 0
             newZIndex == highestNonPinnedZIndex + 1
             upd(w) == IF w.id = id
                       THEN [w EXCEPT !.isPinned = FALSE, !.zIndex = newZIndex]
                       ELSE w
         IN [s EXCEPT !.windows = [i \in 1..Len(s.windows) |-> upd(s.windows[i])],
                      !.nextZIndex = newZIndex + 1]

closeAll(s) == [s EXCEPT !.windows = <<>>]

closeByType_recount(s, type) ==
    LET rest == SelectSeq(s.windows, LAMBDA w : w.type # type)
    IN [s EXCEPT !.windows = rest,
                 !.nextZIndex = getHighestZIndex(rest) + 1]

closeByType(s, type) ==
    [s EXCEPT !.windows = SelectSeq(s.windows, LAMBDA w : w.type # type)]

\* getFocusedWindow(): windows.find((w) => w.isFocused)
getFocusedWindow(s) ==
    IF \E i \in 1..Len(s.windows) : s.windows[i].isFocused
    THEN s.windows[CHOOSE i \in 1..Len(s.windows) :
                       /\ s.windows[i].isFocused
                       /\ \A j \in 1..(i - 1) : ~s.windows[j].isFocused]
    ELSE Nil

(***************************************************************************)
(* Steps: a call replaces the store state by the action's result.           *)
(***************************************************************************)
Becomes(op, id, t) ==
    /\ windows' = t.windows
    /\ containerSize' = t.containerSize
    /\ nextZIndex' = t.nextZIndex
    /\ lastCall' = [op |-> op, id |-> id]
    /\ calls' = calls + 1
    /\ UNCHANGED pending
    /\ UNCHANGED uiVars

Call(op, id, t) == calls < MaxCalls /\ Becomes(op, id, t)

InitFromZero ==
    /\ windows = <<>>
    /\ containerSize = [width |-> 0, height |-> 0]
    /\ nextZIndex = 0
    /\ lastCall = [op |-> "init", id |-> NoId]
    /\ calls = 0
    /\ pending = <<>>
    /\ isDragging = [id \in Ids |-> FALSE]
    /\ dragStart = [id \in Ids |-> [x |-> 0, y |-> 0]]
    /\ listeners = <<>>
    /\ event = NoEvent
    /\ issued = <<>>

Init ==
    /\ windows = <<>>
    /\ containerSize = [width |-> 0, height |-> 0]
    /\ nextZIndex = 1
    /\ lastCall = [op |-> "init", id |-> NoId]
    /\ calls = 0
    /\ pending = <<>>
    /\ isDragging = [id \in Ids |-> FALSE]
    /\ dragStart = [id \in Ids |-> [x |-> 0, y |-> 0]]
    /\ listeners = <<>>
    /\ event = NoEvent
    /\ issued = <<>>

SetContainerSize ==
    \E size \in ContainerSizes :
        Call("setContainerSize", NoId, setContainerSize(State, size))

Open ==
    \E type \in Types, optId \in Ids \cup {NoId},
       position \in (Positions \ {DefaultPosition}) \cup {Nil},
       size \in (Sizes \ {DefaultSize}) \cup {Nil} :
        \E id \in (IF optId = NoId THEN generateWindowId ELSE {optId}) :
            Call("open", id, open(State, type, id, position, size))

Close == \E id \in Ids : Call("close", id, close(State, id))

Focus == \E id \in Ids : Call("focus", id, focus(State, id))

Move ==
    \E id \in Ids, position \in Positions :
        Call("move", id, move(State, id, position))

Resize ==
    \E id \in Ids, size \in Sizes : Call("resize", id, resize(State, id, size))

Maximize == \E id \in Ids : Call("maximize", id, maximize(State, id))

Minimize == \E id \in Ids : Call("minimize", id, minimize(State, id))

Fullscreen == \E id \in Ids : Call("fullscreen", id, fullscreen(State, id))

Unfullscreen == \E id \in Ids : Call("unfullscreen", id, unfullscreen(State, id))

Pin == \E id \in Ids : Call("pin", id, pin(State, id))

Unpin == \E id \in Ids : Call("unpin", id, unpin(State, id))

CloseAll == Call("closeAll", NoId, closeAll(State))

CloseByType == \E type \in Types : Call("closeByType", NoId, closeByType(State, type))

Next ==
    \/ SetContainerSize
    \/ Open
    \/ Close
    \/ Focus
    \/ Move
    \/ Resize
    \/ Maximize
    \/ Minimize
    \/ Fullscreen
    \/ Unfullscreen
    \/ Pin
    \/ Unpin
    \/ CloseAll
    \/ CloseByType

Spec == Init /\ [][Next]_vars

(***************************************************************************)
(* SpecStack: the actions that assign zIndex and isFocused or remove        *)
(* windows, on three windows of one type with default geometry.             *)
(***************************************************************************)
StackCall(op, id, t) == calls < MaxStackCalls /\ Becomes(op, id, t)

StackOpen ==
    \E id \in StackIds :
        StackCall("open", id, open(State, "calc", id, Nil, Nil))

StackClose == \E id \in StackIds : StackCall("close", id, close(State, id))

StackFocus == \E id \in StackIds : StackCall("focus", id, focus(State, id))

StackPin == \E id \in StackIds : StackCall("pin", id, pin(State, id))

StackUnpin == \E id \in StackIds : StackCall("unpin", id, unpin(State, id))

NextStack ==
    \/ StackOpen
    \/ StackClose
    \/ StackFocus
    \/ StackPin
    \/ StackUnpin

SpecStack == Init /\ [][NextStack]_vars

(***************************************************************************)
(* SpecBand: long runs of open, close and pin on two windows.               *)
(***************************************************************************)
BandCall(op, id, t) == calls < MaxBandCalls /\ Becomes(op, id, t)

BandOpen ==
    \E id \in Ids : BandCall("open", id, open(State, "calc", id, Nil, Nil))

BandClose == \E id \in Ids : BandCall("close", id, close(State, id))

BandPin == \E id \in Ids : BandCall("pin", id, pin(State, id))

NextBand ==
    \/ BandOpen
    \/ BandClose
    \/ BandPin

SpecBand == Init /\ [][NextBand]_vars

(***************************************************************************)
(* SpecAtomic: open, focus, pin and unpin with each state$.set as a step.   *)
(* A call reads currentState, computes the new array and calls              *)
(* state$.windows.set, which notifies the subscribers of the observable     *)
(* before it returns; a subscriber may read the state and may call a store  *)
(* action itself.  Then the call goes on to state$.nextZIndex.set.  A call  *)
(* that returns early sets nothing.                                         *)
(***************************************************************************)
\* the call has got past its early returns and has called state$.windows.set
SetWindows(op, id, t) ==
    /\ calls < MaxAtomicCalls
    /\ Len(pending) < MaxDepth
    /\ lastCall' = [op |-> op, id |-> id]
    /\ calls' = calls + 1
    /\ IF t = State
       THEN UNCHANGED <<windows, pending>>
       ELSE /\ windows' = t.windows
            /\ pending' = Append(pending, [op |-> op, id |-> id,
                                           nextZIndex |-> t.nextZIndex])
    /\ UNCHANGED <<containerSize, nextZIndex>>
    /\ UNCHANGED uiVars

AtomicOpen ==
    \E id \in Ids : SetWindows("open", id, open(State, "calc", id, Nil, Nil))

AtomicFocus == \E id \in Ids : SetWindows("focus", id, focus(State, id))

AtomicPin == \E id \in Ids : SetWindows("pin", id, pin(State, id))

AtomicUnpin == \E id \in Ids : SetWindows("unpin", id, unpin(State, id))

\* the innermost call goes on to state$.nextZIndex.set and returns.  focus,
\* pin and unpin set newZIndex + 1, a value computed before the first set.
\* open sets currentState.nextZIndex + 1, read now from the value get() gave
\* it: that is the number it read at its start, or the present one when the
\* observable keeps handing out the same object, as the library may.
SetNextZIndex ==
    /\ pending # <<>>
    /\ LET top == pending[Len(pending)]
       IN \/ nextZIndex' = top.nextZIndex
          \/ top.op = "open" /\ nextZIndex' = nextZIndex + 1
    /\ pending' = SubSeq(pending, 1, Len(pending) - 1)
    /\ UNCHANGED <<windows, containerSize, lastCall, calls>>
    /\ UNCHANGED uiVars

NextAtomic ==
    \/ AtomicOpen
    \/ AtomicFocus
    \/ AtomicPin
    \/ AtomicUnpin
    \/ SetNextZIndex

SpecAtomic == Init /\ [][NextAtomic]_vars

(***************************************************************************)
(* The Window component: the header's mouse-down starts a move gesture, a   *)
(* resize handle's mouse-down starts a resize gesture, and the document's   *)
(* mousemove and mouseup listeners carry the gesture on and end it.         *)
(***************************************************************************)
\* direction.includes(part)
includes(direction, part) ==
    CASE part = "left" -> direction \in {"left", "top-left", "bottom-left"}
      [] part = "right" -> direction \in {"right", "top-right", "bottom-right"}
      [] part = "top" -> direction \in {"top", "top-left", "top-right"}
      [] part = "bottom" ->
             direction \in {"bottom", "bottom-left", "bottom-right"}

\* the minimum size constraints of a resize sample: newSize and newPosition
\* as they are sent, from the candidates and the values the sample began with
clampSample_noShift(direction, newSize, newPosition, startSize, startPosition) ==
    [size |-> [width |-> IF newSize.width < MinWidth
                         THEN MinWidth ELSE newSize.width,
               height |-> IF newSize.height < MinHeight
                          THEN MinHeight ELSE newSize.height],
     position |-> newPosition]

clampSample_belowZero(direction, newSize, newPosition, startSize, startPosition) ==
    LET narrow == newSize.width < 0
        low == newSize.height < 0
    IN [size |->
            [width |-> IF narrow THEN MinWidth ELSE newSize.width,
             height |-> IF low THEN MinHeight ELSE newSize.height],
        position |->
            [x |-> IF narrow /\ includes(direction, "left")
                   THEN startPosition.x + startSize.width - MinWidth
                   ELSE newPosition.x,
             y |-> IF low /\ includes(direction, "top")
                   THEN startPosition.y + startSize.height - MinHeight
                   ELSE newPosition.y]]

clampSample(direction, newSize, newPosition, startSize, startPosition) ==
    LET narrow == newSize.width < MinWidth
        low == newSize.height < MinHeight
    IN [size |->
            [width |-> IF narrow THEN MinWidth ELSE newSize.width,
             height |-> IF low THEN MinHeight ELSE newSize.height],
        position |->
            [x |-> IF narrow /\ includes(direction, "left")
                   THEN startPosition.x + startSize.width - MinWidth
                   ELSE newPosition.x,
             y |-> IF low /\ includes(direction, "top")
                   THEN startPosition.y + startSize.height - MinHeight
                   ELSE newPosition.y]]

\* handleResizeMouseDown.handleMouseMove: the size and position of a sample
resizeSample_leftAsRight(direction, initialSize, initialPosition, dx, dy) ==
    LET newSize ==
            [width |-> IF includes(direction, "right")
                       THEN initialSize.width + dx
                       ELSE IF includes(direction, "left")
                       THEN initialSize.width + dx
                       ELSE initialSize.width,
             height |-> IF includes(direction, "bottom")
                        THEN initialSize.height + dy
                        ELSE IF includes(direction, "top")
                        THEN initialSize.height - dy
                        ELSE initialSize.height]
        newPosition ==
            [x |-> IF includes(direction, "left")
                   THEN initialPosition.x + dx ELSE initialPosition.x,
             y |-> IF includes(direction, "top")
                   THEN initialPosition.y + dy ELSE initialPosition.y]
    IN clampSample(direction, newSize, newPosition, initialSize, initialPosition)

resizeSample_rightShifts(direction, initialSize, initialPosition, dx, dy) ==
    LET newSize ==
            [width |-> IF includes(direction, "right")
                       THEN initialSize.width + dx
                       ELSE IF includes(direction, "left")
                       THEN initialSize.width - dx
                       ELSE initialSize.width,
             height |-> IF includes(direction, "bottom")
                        THEN initialSize.height + dy
                        ELSE IF includes(direction, "top")
                        THEN initialSize.height - dy
                        ELSE initialSize.height]
        newPosition ==
            [x |-> IF includes(direction, "right") \/ includes(direction, "left")
                   THEN initialPosition.x + dx ELSE initialPosition.x,
             y |-> IF includes(direction, "top")
                   THEN initialPosition.y + dy ELSE initialPosition.y]
    IN clampSample(direction, newSize, newPosition, initialSize, initialPosition)

resizeSample(direction, initialSize, initialPosition, dx, dy) ==
    LET newSize ==
            [width |-> IF includes(direction, "right")
                       THEN initialSize.width + dx
                       ELSE IF includes(direction, "left")
                       THEN initialSize.width - dx
                       ELSE initialSize.width,
             height |-> IF includes(direction, "bottom")
                        THEN initialSize.height + dy
                        ELSE IF includes(direction, "top")
                        THEN initialSize.height - dy
                        ELSE initialSize.height]
        newPosition ==
            [x |-> IF ~includes(direction, "right") /\ includes(direction, "left")
                   THEN initialPosition.x + dx ELSE initialPosition.x,
             y |-> IF ~includes(direction, "bottom") /\ includes(direction, "top")
                   THEN initialPosition.y + dy ELSE initialPosition.y]
    IN clampSample(direction, newSize, newPosition, initialSize, initialPosition)

\* the resize handle's onKeyDown for an arrow key
keySample_noShift(direction, key, shiftKey, currentSize, currentPosition) ==
    LET step == 1
        dw == IF includes(direction, "right") /\ key = "ArrowRight" THEN step
              ELSE IF includes(direction, "right") /\ key = "ArrowLeft" THEN -step
              ELSE IF includes(direction, "left") /\ key = "ArrowLeft" THEN step
              ELSE IF includes(direction, "left") /\ key = "ArrowRight" THEN -step
              ELSE 0
        dx == IF includes(direction, "right") /\ key \in {"ArrowRight", "ArrowLeft"}
              THEN 0
              ELSE IF includes(direction, "left") /\ key = "ArrowLeft" THEN -step
              ELSE IF includes(direction, "left") /\ key = "ArrowRight" THEN step
              ELSE 0
        dh == IF includes(direction, "bottom") /\ key = "ArrowDown" THEN step
              ELSE IF includes(direction, "bottom") /\ key = "ArrowUp" THEN -step
              ELSE IF includes(direction, "top") /\ key = "ArrowUp" THEN step
              ELSE IF includes(direction, "top") /\ key = "ArrowDown" THEN -step
              ELSE 0
        dy == IF includes(direction, "bottom") /\ key \in {"ArrowDown", "ArrowUp"}
              THEN 0
              ELSE IF includes(direction, "top") /\ key = "ArrowUp" THEN -step
              ELSE IF includes(direction, "top") /\ key = "ArrowDown" THEN step
              ELSE 0
    IN clampSample(direction,
                   [width |-> currentSize.width + dw,
                    height |-> currentSize.height + dh],
                   [x |-> currentPosition.x + dx, y |-> currentPosition.y + dy],
                   currentSize, currentPosition)

keySample(direction, key, shiftKey, currentSize, currentPosition) ==
    LET step == IF shiftKey THEN 10 ELSE 1
        dw == IF includes(direction, "right") /\ key = "ArrowRight" THEN step
              ELSE IF includes(direction, "right") /\ key = "ArrowLeft" THEN -step
              ELSE IF includes(direction, "left") /\ key = "ArrowLeft" THEN step
              ELSE IF includes(direction, "left") /\ key = "ArrowRight" THEN -step
              ELSE 0
        dx == IF includes(direction, "right") /\ key \in {"ArrowRight", "ArrowLeft"}
              THEN 0
              ELSE IF includes(direction, "left") /\ key = "ArrowLeft" THEN -step
              ELSE IF includes(direction, "left") /\ key = "ArrowRight" THEN step
              ELSE 0
        dh == IF includes(direction, "bottom") /\ key = "ArrowDown" THEN step
              ELSE IF includes(direction, "bottom") /\ key = "ArrowUp" THEN -step
              ELSE IF includes(direction, "top") /\ key = "ArrowUp" THEN step
              ELSE IF includes(direction, "top") /\ key = "ArrowDown" THEN -step
              ELSE 0
        dy == IF includes(direction, "bottom") /\ key \in {"ArrowDown", "ArrowUp"}
              THEN 0
              ELSE IF includes(direction, "top") /\ key = "ArrowUp" THEN -step
              ELSE IF includes(direction, "top") /\ key = "ArrowDown" THEN step
              ELSE 0
    IN clampSample(direction,
                   [width |-> currentSize.width + dw,
                    height |-> currentSize.height + dh],
                   [x |-> currentPosition.x + dx, y |-> currentPosition.y + dy],
                   currentSize, currentPosition)

\* a store call as a handler issues it
StoreCall(op, id, arg) == [op |-> op, id |-> id, arg |-> arg]

\* the listener the drag effect adds for window id
dragListener(id) ==
    [kind |-> "drag", id |-> id, direction |-> "none",
     initialPos |-> [x |-> 0, y |-> 0],
     initialSize |-> [width |-> 0, height |-> 0],
     initialPosition |-> [x |-> 0, y |-> 0]]

\* the closure handleResizeMouseDown adds
resizeListener(id, direction, initialPos, initialSize, initialPosition) ==
    [kind |-> "resize", id |-> id, direction |-> direction,
     initialPos |-> initialPos, initialSize |-> initialSize,
     initialPosition |-> initialPosition]

\* the store calls one mousemove listener makes for the pointer at p
listenerCalls_dragInside(l, p) ==
    IF l.kind = "drag"
    THEN IF ~isDragging[l.id] THEN <<>>
         ELSE <<StoreCall("move", l.id,
                          [x |-> Max(0, p.x - dragStart[l.id].x),
                           y |-> Max(0, p.y - dragStart[l.id].y)])>>
    ELSE LET r == resizeSample(l.direction, l.initialSize, l.initialPosition,
                               p.x - l.initialPos.x, p.y - l.initialPos.y)
         IN <<StoreCall("resize", l.id, r.size),
              StoreCall("move", l.id, r.position)>>

listenerCalls_moveIfChanged(l, p) ==
    IF l.kind = "drag"
    THEN IF ~isDragging[l.id] THEN <<>>
         ELSE <<StoreCall("move", l.id, [x |-> p.x - dragStart[l.id].x,
                                         y |-> p.y - dragStart[l.id].y])>>
    ELSE LET r == resizeSample(l.direction, l.initialSize, l.initialPosition,
                               p.x - l.initialPos.x, p.y - l.initialPos.y)
         IN IF r.position = l.initialPosition
            THEN <<StoreCall("resize", l.id, r.size)>>
            ELSE <<StoreCall("resize", l.id, r.size),
                   StoreCall("move", l.id, r.position)>>

listenerCalls_fromCurrent(l, p) ==
    IF l.kind = "drag"
    THEN IF ~isDragging[l.id] THEN <<>>
         ELSE <<StoreCall("move", l.id, [x |-> p.x - dragStart[l.id].x,
                                         y |-> p.y - dragStart[l.id].y])>>
    ELSE LET r == resizeSample(l.direction, Win(l.id).size, Win(l.id).position,
                               p.x - l.initialPos.x, p.y - l.initialPos.y)
         IN <<StoreCall("resize", l.id, r.size),
              StoreCall("move", l.id, r.position)>>

listenerCalls(l, p) ==
    IF l.kind = "drag"
    THEN IF ~isDragging[l.id] THEN <<>>
         ELSE <<StoreCall("move", l.id, [x |-> p.x - dragStart[l.id].x,
                                         y |-> p.y - dragStart[l.id].y])>>
    ELSE LET r == resizeSample(l.direction, l.initialSize, l.initialPosition,
                               p.x - l.initialPos.x, p.y - l.initialPos.y)
         IN <<StoreCall("resize", l.id, r.size),
              StoreCall("move", l.id, r.position)>>

\* the store after the calls cs, made one after the other
RECURSIVE applyCalls(_, _)
applyCalls(s, cs) ==
    IF cs = <<>> THEN s
    ELSE LET c == Head(cs)
             s1 == CASE c.op = "focus" -> focus(s, c.id)
                     [] c.op = "move" -> move(s, c.id, c.arg)
                     [] c.op = "resize" -> resize(s, c.id, c.arg)
         IN applyCalls(s1, Tail(cs))

\* the calls of all the listeners ls, one group for each listener
RECURSIVE dispatch(_, _)
dispatch(ls, p) ==
    IF ls = <<>> THEN <<>>
    ELSE <<listenerCalls(Head(ls), p)>> \o dispatch(Tail(ls), p)

\* the groups of calls as one sequence
RECURSIVE flatten(_)
flatten(groups) ==
    IF groups = <<>> THEN <<>> ELSE Head(groups) \o flatten(Tail(groups))

UIEvent(type, id, direction, pointer, key, shiftKey) ==
    [type |-> type, id |-> id, direction |-> direction, pointer |-> pointer,
     key |-> key, shiftKey |-> shiftKey]

\* an event is handled: its handlers issue the groups of calls
Handled(e, groups) ==
    /\ calls < MaxEvents
    /\ LET t == applyCalls(State, flatten(groups))
       IN /\ windows' = t.windows
          /\ containerSize' = t.containerSize
          /\ nextZIndex' = t.nextZIndex
    /\ event' = e
    /\ issued' = groups
    /\ calls' = calls + 1
    /\ lastCall' = IF flatten(groups) = <<>> THEN lastCall
                   ELSE LET c == flatten(groups)[Len(flatten(groups))]
                        IN [op |-> c.op, id |-> c.id]
    /\ UNCHANGED pending

\* the application opens a window
GestureOpen ==
    \E id \in Ids, options \in GestureOptions :
        /\ calls < MaxEvents
        /\ LET t == open(State, "calc", id, options.position, options.size)
           IN /\ windows' = t.windows
              /\ containerSize' = t.containerSize
              /\ nextZIndex' = t.nextZIndex
        /\ event' = UIEvent("open", id, "none", [x |-> 0, y |-> 0], "none", FALSE)
        /\ issued' = <<>>
        /\ calls' = calls + 1
        /\ lastCall' = [op |-> "open", id |-> id]
        /\ UNCHANGED <<pending, isDragging, dragStart, listeners>>

\* handleMouseDown on the header of window id with the left button, and then
\* the container's onMouseDown, which the event bubbles to.  The button goes
\* down only when it is up: every mouseup empties the listeners, so a gesture
\* is in progress exactly while there is a listener.
HeaderMouseDown ==
    \E id \in Ids, p \in Pointers :
        /\ Present(id)
        /\ listeners = <<>>
        /\ isDragging' = [isDragging EXCEPT ![id] = TRUE]
        /\ dragStart' = [dragStart EXCEPT
                            ![id] = [x |-> p.x - Win(id).position.x,
                                     y |-> p.y - Win(id).position.y]]
        /\ listeners' =
              Append(SelectSeq(listeners,
                               LAMBDA l : ~(l.kind = "drag" /\ l.id = id)),
                     dragListener(id))
        /\ Handled(UIEvent("mousedown", id, "none", p, "none", FALSE),
                   <<(<<StoreCall("focus", id, Nil)>>),
                     (<<StoreCall("focus", id, Nil)>>)>>)

\* handleResizeMouseDown on a handle of window id
ResizeMouseDown ==
    \E id \in Ids, direction \in Directions, p \in Pointers :
        /\ Present(id)
        /\ Win(id).state \notin {"maximized", "fullscreen"}
        /\ listeners = <<>>
        /\ listeners' = Append(listeners,
                               resizeListener(id, direction, p, Win(id).size,
                                              Win(id).position))
        /\ UNCHANGED <<isDragging, dragStart>>
        /\ Handled(UIEvent("resizedown", id, direction, p, "none", FALSE), <<>>)

\* a mousemove on the document: every listener runs, in the order added
MouseMove ==
    \E p \in Pointers :
        /\ UNCHANGED <<isDragging, dragStart, listeners>>
        /\ Handled(UIEvent("mousemove", NoId, "none", p, "none", FALSE),
                   dispatch(listeners, p))

\* a mouseup on the document: handleMouseUp of every gesture runs; the resize
\* closures remove themselves, the drag effect's cleanup removes its listeners
MouseUp_keepsResize ==
    /\ isDragging' = [id \in Ids |-> FALSE]
    /\ listeners' = SelectSeq(listeners, LAMBDA l : l.kind = "resize")
    /\ UNCHANGED dragStart
    /\ Handled(UIEvent("mouseup", NoId, "none", [x |-> 0, y |-> 0], "none", FALSE),
               <<>>)

MouseUp ==
    /\ isDragging' =
          [id \in Ids |->
              IF \E k \in 1..Len(listeners) :
                    listeners[k].kind = "drag" /\ listeners[k].id = id
              THEN FALSE ELSE isDragging[id]]
    /\ listeners' = <<>>
    /\ UNCHANGED dragStart
    /\ Handled(UIEvent("mouseup", NoId, "none", [x |-> 0, y |-> 0], "none", FALSE),
               <<>>)

NextGesture ==
    \/ GestureOpen
    \/ HeaderMouseDown
    \/ ResizeMouseDown
    \/ MouseMove
    \/ MouseUp

SpecGesture == Init /\ [][NextGesture]_vars

(***************************************************************************)
(* SpecUnmount: the gestures of SpecGesture with windows closed and opened  *)
(* in between.  Closing a window unmounts its Window component: the         *)
(* component state goes and the drag effect's cleanup removes the listeners *)
(* the effect added.  Nothing removes the listeners a resize closure added  *)
(* but that closure's own handleMouseUp.                                    *)
(***************************************************************************)
\* the application opens a window under an id that is not in use
UnmountOpen ==
    \E id \in Ids :
        /\ calls < MaxEvents
        /\ ~Present(id)
        /\ LET t == open(State, "calc", id, Nil, Nil)
           IN /\ windows' = t.windows
              /\ containerSize' = t.containerSize
              /\ nextZIndex' = t.nextZIndex
        /\ event' = UIEvent("open", id, "none", [x |-> 0, y |-> 0], "none", FALSE)
        /\ issued' = <<>>
        /\ calls' = calls + 1
        /\ lastCall' = [op |-> "open", id |-> id]
        /\ UNCHANGED <<pending, isDragging, dragStart, listeners>>

\* the application closes window id and its Window component is unmounted
UnmountClose ==
    \E id \in Ids :
        /\ calls < MaxEvents
        /\ Present(id)
        /\ LET t == close(State, id)
           IN /\ windows' = t.windows
              /\ containerSize' = t.containerSize
              /\ nextZIndex' = t.nextZIndex
        /\ isDragging' = [isDragging EXCEPT ![id] = FALSE]
        /\ dragStart' = [dragStart EXCEPT ![id] = [x |-> 0, y |-> 0]]
        /\ listeners' = SelectSeq(listeners,
                                  LAMBDA l : ~(l.kind = "drag" /\ l.id = id))
        /\ event' = UIEvent("close", id, "none", [x |-> 0, y |-> 0], "none", FALSE)
        /\ issued' = <<>>
        /\ calls' = calls + 1
        /\ lastCall' = [op |-> "close", id |-> id]
        /\ UNCHANGED pending

NextUnmount ==
    \/ UnmountOpen
    \/ UnmountClose
    \/ HeaderMouseDown
    \/ ResizeMouseDown
    \/ MouseMove
    \/ MouseUp

SpecUnmount == Init /\ [][NextUnmount]_vars

(***************************************************************************)
(* SpecKeys: windows are opened and an arrow key is pressed on a resize     *)
(* handle.                                                                  *)
(***************************************************************************)
\* the store calls the handle's onKeyDown makes for an arrow key, w being the
\* window the component was rendered with
keyDownCalls(w, direction, key, shiftKey) ==
    LET r == keySample(direction, key, shiftKey, w.size, w.position)
    IN <<StoreCall("resize", w.id, r.size), StoreCall("move", w.id, r.position)>>

KeyDown ==
    \E id \in Ids, direction \in Directions, key \in ArrowKeys,
       shiftKey \in BOOLEAN :
        /\ Present(id)
        /\ Win(id).state \notin {"maximized", "fullscreen"}
        /\ calls < MaxKeyEvents
        /\ UNCHANGED <<isDragging, dragStart, listeners>>
        /\ Handled(UIEvent("keydown", id, direction, [x |-> 0, y |-> 0],
                           key, shiftKey),
                   <<keyDownCalls(Win(id), direction, key, shiftKey)>>)

\* the application opens a window
KeysOpen ==
    \E id \in Ids, options \in KeyOptions :
        /\ calls < MaxKeyEvents
        /\ LET t == open(State, "calc", id, options.position, options.size)
           IN /\ windows' = t.windows
              /\ containerSize' = t.containerSize
              /\ nextZIndex' = t.nextZIndex
        /\ event' = UIEvent("open", id, "none", [x |-> 0, y |-> 0], "none", FALSE)
        /\ issued' = <<>>
        /\ calls' = calls + 1
        /\ lastCall' = [op |-> "open", id |-> id]
        /\ UNCHANGED <<pending, isDragging, dragStart, listeners>>

NextKeys ==
    \/ KeysOpen
    \/ KeyDown

SpecKeys == Init /\ [][NextKeys]_vars

(***************************************************************************)
(* Vocabulary of the properties.                                            *)
(***************************************************************************)

FocusedCount(ws) == Cardinality({i \in 1..Len(ws) : ws[i].isFocused})

\* the largest zIndex of a non-empty array, by its defining property
LargestZIndex(ws) ==
    CHOOSE m \in {ws[i].zIndex : i \in 1..Len(ws)} :
        \A i \in 1..Len(ws) : ws[i].zIndex <= m

\* the window is pinned and its zIndex exceeds that of every non-pinned one
PinnedAbove(ws, id) ==
    \E i \in 1..Len(ws) :
        /\ ws[i].id = id
        /\ ws[i].isPinned
        /\ \A j \in 1..Len(ws) : ~ws[j].isPinned => ws[i].zIndex > ws[j].zIndex

OpsOnWindows ==
    {"open", "close", "focus", "move", "resize",
     "minimize", "maximize", "fullscreen", "unfullscreen"}

\* the step is a call of op that targets no pinned window
CallOnNonPinned ==
    /\ lastCall'.op \in OpsOnWindows
    /\ \A i \in 1..Len(windows) : windows[i].id = lastCall'.id => ~windows[i].isPinned

(***************************************************************************)
(* C1: in every reachable state at most one window has isFocused = TRUE.    *)
(***************************************************************************)
C1_AtMostOneFocused == FocusedCount(windows) <= 1

\* a focus call has moved the focus between two open windows
C1_Witness ==
    /\ lastCall.op = "focus"
    /\ Len(windows) = 2
    /\ Present(lastCall.id)
    /\ Win(lastCall.id).isFocused
    /\ windows[2].id # lastCall.id
    /\ FocusedCount(windows) = 1

(***************************************************************************)
(* C2: in every reachable state no two records of windows have the same id, *)
(* also after opens with an id in use and opens that reuse a closed id.     *)
(***************************************************************************)
C2_UniqueIds ==
    \A i, j \in 1..Len(windows) : i # j => windows[i].id # windows[j].id

\* an open with an id in use was refused: the id's window is not the focused
\* last record an accepted open leaves
C2_Witness ==
    /\ lastCall.op = "open"
    /\ Len(windows) = 2
    /\ windows[1].id = lastCall.id
    /\ ~windows[1].isFocused
    /\ windows[2].isFocused

(***************************************************************************)
(* C3: in every reachable state nextZIndex is strictly greater than the     *)
(* zIndex of every window that is not pinned.                               *)
(***************************************************************************)
C3_CounterAboveNonPinned ==
    \A i \in 1..Len(windows) :
        ~windows[i].isPinned => nextZIndex > windows[i].zIndex

\* an unpin has set the counter below a window that is still pinned
C3_Witness ==
    /\ lastCall.op = "unpin"
    /\ Present(lastCall.id)
    /\ ~Win(lastCall.id).isPinned
    /\ nextZIndex = Win(lastCall.id).zIndex + 1
    /\ \E i \in 1..Len(windows) :
           windows[i].isPinned /\ windows[i].zIndex > nextZIndex

(***************************************************************************)
(* C4: a pinned window whose zIndex is above every non-pinned window's      *)
(* keeps it above them through every call of open, close, focus, move,      *)
(* resize, minimize, maximize, fullscreen or unfullscreen on a non-pinned   *)
(* window, as long as it stays pinned.                                      *)
(***************************************************************************)
C4_PinnedStaysAbove ==
    [][\A id \in Ids :
          (PinnedAbove(windows, id) /\ CallOnNonPinned)
              => PinnedAbove(windows', id)]_vars

(***************************************************************************)
(* C5: in every reachable state the stacking key (zIndex + 10000 when       *)
(* pinned, zIndex otherwise) of every pinned window is strictly greater     *)
(* than that of every non-pinned window.                                    *)
(***************************************************************************)
C5_PinnedBandOnTop ==
    \A i, j \in 1..Len(windows) :
        (windows[i].isPinned /\ ~windows[j].isPinned)
            => stackingKey(windows[i]) > stackingKey(windows[j])

(***************************************************************************)
(* C6: nextZIndex never decreases: after every action its value is greater  *)
(* than or equal to its value before.                                       *)
(***************************************************************************)
C6_CounterMonotone == [][nextZIndex' >= nextZIndex]_vars

(***************************************************************************)
(* C7: in every reachable state no two windows of the collection, pinned    *)
(* or not, have the same zIndex.                                            *)
(***************************************************************************)
C7_DistinctZIndex ==
    \A i, j \in 1..Len(windows) : i # j => windows[i].zIndex # windows[j].zIndex

(***************************************************************************)
(* C8 as stated: after any call of open or focus exactly one record has     *)
(* isFocused = TRUE, and after any call of close zero or one.               *)
(***************************************************************************)
C8_Original ==
    /\ lastCall.op \in {"open", "focus"} => FocusedCount(windows) = 1
    /\ lastCall.op = "close" => FocusedCount(windows) <= 1

(***************************************************************************)
(* C8 amended: after an open whose id is not in the collection and after a  *)
(* focus whose id is in the collection exactly one record has               *)
(* isFocused = TRUE; after any other open or focus (which changes nothing)  *)
(* and after any close, zero or one.                                        *)
(***************************************************************************)
C8_FocusAfterCall ==
    [][/\ (lastCall'.op = "open" /\ ~Present(lastCall'.id))
              => FocusedCount(windows') = 1
       /\ (lastCall'.op = "focus" /\ Present(lastCall'.id))
              => FocusedCount(windows') = 1
       /\ lastCall'.op \in {"open", "focus", "close"}
              => FocusedCount(windows') <= 1]_vars

\* a focus call on an open window has taken the focus from another one
C8_Witness ==
    /\ lastCall.op = "focus"
    /\ Len(windows) >= 2
    /\ Present(lastCall.id)
    /\ Win(lastCall.id).isFocused
    /\ windows[Len(windows)].id # lastCall.id
    /\ Win(lastCall.id).zIndex + 1 = nextZIndex

(***************************************************************************)
(* C9: focus(id) on a window of the collection that is not focused makes it *)
(* the only focused window, sets its zIndex to 1 + the largest zIndex of    *)
(* all windows present at the call (pinned included), sets nextZIndex to    *)
(* that zIndex + 1, and leaves the zIndex of every other window.            *)
(***************************************************************************)
C9_FocusRaises ==
    [][\A id \in StackIds :
          (lastCall' = [op |-> "focus", id |-> id]
             /\ Present(id) /\ ~Win(id).isFocused)
          => /\ Len(windows') = Len(windows)
             /\ \A i \in 1..Len(windows) :
                   /\ windows'[i].id = windows[i].id
                   /\ windows'[i].isFocused = (windows[i].id = id)
                   /\ windows'[i].zIndex =
                          IF windows[i].id = id
                          THEN LargestZIndex(windows) + 1
                          ELSE windows[i].zIndex
             /\ nextZIndex' = LargestZIndex(windows) + 2]_vars

\* a focus call has raised a window above a pinned one
C9_Witness ==
    /\ lastCall.op = "focus"
    /\ Present(lastCall.id)
    /\ Win(lastCall.id).isFocused
    /\ ~Win(lastCall.id).isPinned
    /\ nextZIndex = Win(lastCall.id).zIndex + 1
    /\ \E i \in 1..Len(windows) :
           /\ windows[i].isPinned
           /\ windows[i].zIndex + 1 = Win(lastCall.id).zIndex

(***************************************************************************)
(* C10: focus(id) on the window that is already focused changes nothing     *)
(* (windows, nextZIndex, containerSize), so a second focus(id) right after  *)
(* a focus(id) leaves the result of the first.                              *)
(***************************************************************************)
C10_FocusIdempotent ==
    [][\A id \in StackIds :
          /\ (lastCall' = [op |-> "focus", id |-> id]
                /\ Present(id) /\ Win(id).isFocused)
             => /\ windows' = windows
                /\ nextZIndex' = nextZIndex
                /\ containerSize' = containerSize
          /\ (lastCall' = [op |-> "focus", id |-> id]
                /\ lastCall = [op |-> "focus", id |-> id])
             => /\ windows' = windows
                /\ nextZIndex' = nextZIndex]_vars

\* a focus call on the focused window, whose zIndex is not the latest given
C10_Witness ==
    /\ lastCall.op = "focus"
    /\ Present(lastCall.id)
    /\ Win(lastCall.id).isFocused
    /\ nextZIndex > Win(lastCall.id).zIndex + 1

(***************************************************************************)
(* C11: after focus(id) on a non-pinned window of the collection, that      *)
(* window's zIndex is strictly greater than the zIndex of every other       *)
(* non-pinned window.                                                       *)
(***************************************************************************)
C11_FocusBringsToFront ==
    [][\A id \in StackIds :
          (lastCall' = [op |-> "focus", id |-> id]
             /\ Present(id) /\ ~Win(id).isPinned)
          => \A i, j \in 1..Len(windows') :
                 (windows'[i].id = id /\ windows'[j].id # id
                    /\ ~windows'[j].isPinned)
                 => windows'[i].zIndex > windows'[j].zIndex]_vars

(***************************************************************************)
(* C12: an open whose id is not in the collection appends exactly one       *)
(* record with state = normal, isPinned = FALSE, isFocused = TRUE and       *)
(* zIndex = the nextZIndex before the call, with position {100,100} and     *)
(* size {400,300} when the option is absent (the option's value otherwise); *)
(* it sets isFocused = FALSE on every other record, leaves their other      *)
(* fields, and increases nextZIndex by exactly 1.                           *)
(***************************************************************************)
C12_OpenAppends ==
    [][/\ (lastCall'.op = "open" /\ ~Present(lastCall'.id))
          => /\ Len(windows') = Len(windows) + 1
             /\ \A i \in 1..Len(windows) :
                    windows'[i] = [windows[i] EXCEPT !.isFocused = FALSE]
             /\ LET w == windows'[Len(windows')] IN
                    /\ w.id = lastCall'.id
                    /\ w.type \in Types
                    /\ w.state = "normal"
                    /\ ~w.isPinned
                    /\ w.isFocused
                    /\ w.zIndex = nextZIndex
                    /\ w.position \in Positions
                    /\ w.size \in Sizes
             /\ nextZIndex' = nextZIndex + 1
             /\ containerSize' = containerSize
       /\ \A id \in Ids, type \in Types,
             position \in Positions \cup {Nil}, size \in Sizes \cup {Nil} :
             ~Present(id)
             => LET t == open(State, type, id, position, size)
                    w == t.windows[Len(t.windows)]
                IN /\ Len(t.windows) = Len(windows) + 1
                   /\ w.type = type
                   /\ w.position = IF position = Nil
                                   THEN [x |-> 100, y |-> 100] ELSE position
                   /\ w.size = IF size = Nil
                               THEN [width |-> 400, height |-> 300] ELSE size]_vars

\* an open has taken the counter's value, which is not the next free zIndex,
\* with the default geometry, and has unfocused the window before it
C12_Witness ==
    /\ lastCall.op = "open"
    /\ Len(windows) = 2
    /\ windows[2].id = lastCall.id
    /\ windows[2].isFocused
    /\ ~windows[1].isFocused
    /\ windows[2].zIndex = nextZIndex - 1
    /\ windows[2].zIndex > windows[1].zIndex + 1
    /\ windows[2].position = DefaultPosition
    /\ windows[2].size = DefaultSize

(***************************************************************************)
(* C13: an open that supplies an id already in the collection leaves the    *)
(* whole manager state (windows with their focus flags, nextZIndex,         *)
(* containerSize) unchanged; the number of windows grows by one on an open  *)
(* with a new id, not at all on a duplicate-id open, and equals the number  *)
(* of distinct ids in the collection.                                       *)
(***************************************************************************)
C13_DuplicateOpenIgnored ==
    [][/\ (lastCall'.op = "open" /\ Present(lastCall'.id))
          => /\ windows' = windows
             /\ nextZIndex' = nextZIndex
             /\ containerSize' = containerSize
       /\ lastCall'.op = "open"
          => Len(windows') =
                 Len(windows) + (IF Present(lastCall'.id) THEN 0 ELSE 1)
       /\ Len(windows') =
              Cardinality({windows'[i].id : i \in 1..Len(windows')})]_vars

\* an open with the id of the first, unfocused window was ignored
C13_Witness ==
    /\ lastCall.op = "open"
    /\ Len(windows) = 2
    /\ windows[1].id = lastCall.id
    /\ ~windows[1].isFocused
    /\ windows[2].isFocused
    /\ nextZIndex = windows[2].zIndex + 1
    /\ calls = 3

IdTargetedOps ==
    {"close", "focus", "move", "resize", "minimize", "maximize",
     "fullscreen", "unfullscreen", "pin", "unpin"}

(***************************************************************************)
(* C14: every id-targeted action (close, focus, move, resize, minimize,     *)
(* maximize, fullscreen, unfullscreen, pin, unpin) called with an id that   *)
(* is not in the collection is defined in every state (it returns a state,  *)
(* no error) and leaves windows, nextZIndex and containerSize as they were. *)
(***************************************************************************)
C14_AbsentIdNoOp ==
    [][/\ (lastCall'.op \in IdTargetedOps /\ ~Present(lastCall'.id))
          => /\ windows' = windows
             /\ nextZIndex' = nextZIndex
             /\ containerSize' = containerSize
       /\ \A id \in Ids :
             ~Present(id)
             => /\ close(State, id) = State
                /\ focus(State, id) = State
                /\ \A position \in Positions : move(State, id, position) = State
                /\ \A size \in Sizes : resize(State, id, size) = State
                /\ minimize(State, id) = State
                /\ maximize(State, id) = State
                /\ fullscreen(State, id) = State
                /\ unfullscreen(State, id) = State
                /\ pin(State, id) = State
                /\ unpin(State, id) = State]_vars

\* an id-targeted call named an absent id while another window was open
C14_Witness ==
    /\ lastCall.op \in IdTargetedOps
    /\ ~Present(lastCall.id)
    /\ Len(windows) = 1
    /\ windows[1].isFocused
    /\ nextZIndex = windows[1].zIndex + 1

(***************************************************************************)
(* C15: close(id) removes exactly the record with that id; every remaining  *)
(* record keeps all its fields and its order, and nextZIndex and            *)
(* containerSize are unchanged.  When the closed window was the focused     *)
(* one, no remaining window is focused and getFocusedWindow returns none.   *)
(***************************************************************************)
C15_CloseRemovesOnly ==
    [][\A id \in Ids :
          (lastCall' = [op |-> "close", id |-> id] /\ Present(id))
          => /\ nextZIndex' = nextZIndex
             /\ containerSize' = containerSize
             /\ \E k \in 1..Len(windows) :
                   /\ windows[k].id = id
                   /\ windows' = SubSeq(windows, 1, k - 1)
                                   \o SubSeq(windows, k + 1, Len(windows))
             /\ Win(id).isFocused
                => /\ \A i \in 1..Len(windows') : ~windows'[i].isFocused
                   /\ getFocusedWindow([windows |-> windows',
                                        containerSize |-> containerSize',
                                        nextZIndex |-> nextZIndex']) = Nil]_vars

\* the focused window was closed and the one that remains is not focused
C15_Witness ==
    /\ lastCall.op = "close"
    /\ ~Present(lastCall.id)
    /\ Len(windows) = 1
    /\ ~windows[1].isFocused
    /\ getFocusedWindow(State) = Nil
    /\ nextZIndex = windows[1].zIndex + 2

(***************************************************************************)
(* C16: pin(id) on an existing non-pinned window sets isPinned, sets its    *)
(* zIndex to 1000 + the maximum zIndex over all windows present (pinned or  *)
(* not), sets nextZIndex to that zIndex + 1 and changes no other record and *)
(* no other field; pin(id) on an already pinned window changes nothing.     *)
(***************************************************************************)
C16_PinAssignsBand ==
    [][\A id \in StackIds :
          (lastCall' = [op |-> "pin", id |-> id] /\ Present(id))
          => IF Win(id).isPinned
             THEN /\ windows' = windows
                  /\ nextZIndex' = nextZIndex
                  /\ containerSize' = containerSize
             ELSE /\ Len(windows') = Len(windows)
                  /\ \A i \in 1..Len(windows) :
                        windows'[i] =
                           IF windows[i].id = id
                           THEN [windows[i] EXCEPT
                                    !.isPinned = TRUE,
                                    !.zIndex = PinnedOffset + LargestZIndex(windows)]
                           ELSE windows[i]
                  /\ nextZIndex' = PinnedOffset + LargestZIndex(windows) + 1
                  /\ containerSize' = containerSize]_vars

\* a second window was pinned 1000 above the one pinned before it
C16_Witness ==
    /\ lastCall.op = "pin"
    /\ \E i, j \in 1..Len(windows) :
          /\ windows[i].id = lastCall.id
          /\ windows[i].isPinned /\ windows[j].isPinned
          /\ windows[i].zIndex = windows[j].zIndex + PinnedOffset
          /\ nextZIndex = windows[i].zIndex + 1

\* the zIndex values of the non-pinned windows other than id
OtherNonPinnedZ(ws, id) ==
    {ws[i].zIndex : i \in {j \in 1..Len(ws) : ws[j].id # id /\ ~ws[j].isPinned}}

(***************************************************************************)
(* C17: unpin(id) on a pinned window clears isPinned and sets its zIndex to *)
(* 1 + the maximum zIndex among the other non-pinned windows (1 when there  *)
(* are none), which is strictly greater than the zIndex of every other      *)
(* non-pinned window; nextZIndex becomes that zIndex + 1 and nothing else   *)
(* changes.  unpin(id) on a window that is not pinned changes nothing.      *)
(***************************************************************************)
C17_UnpinAssignsTop ==
    [][\A id \in StackIds :
          (lastCall' = [op |-> "unpin", id |-> id] /\ Present(id))
          => IF ~Win(id).isPinned
             THEN /\ windows' = windows
                  /\ nextZIndex' = nextZIndex
                  /\ containerSize' = containerSize
             ELSE LET zs == OtherNonPinnedZ(windows, id)
                      z == IF zs = {} THEN 1
                           ELSE 1 + (CHOOSE m \in zs : \A n \in zs : n <= m)
                  IN /\ Len(windows') = Len(windows)
                     /\ \A i \in 1..Len(windows) :
                           windows'[i] =
                              IF windows[i].id = id
                              THEN [windows[i] EXCEPT !.isPinned = FALSE,
                                                      !.zIndex = z]
                              ELSE windows[i]
                     /\ \A i, j \in 1..Len(windows') :
                           (windows'[i].id = id /\ windows'[j].id # id
                              /\ ~windows'[j].isPinned)
                           => windows'[i].zIndex > windows'[j].zIndex
                     /\ nextZIndex' = z + 1
                     /\ containerSize' = containerSize]_vars

\* a window was unpinned to just above another non-pinned window while a
\* third window stayed pinned
C17_Witness ==
    /\ lastCall.op = "unpin"
    /\ \E i, j, k \in 1..Len(windows) :
          /\ windows[i].id = lastCall.id
          /\ ~windows[i].isPinned /\ ~windows[j].isPinned /\ i # j
          /\ windows[k].isPinned
          /\ windows[i].zIndex = windows[j].zIndex + 1
          /\ windows[k].zIndex > windows[i].zIndex
          /\ nextZIndex = windows[i].zIndex + 1

\* pin(id) is called on a non-pinned window while no window is pinned and the
\* maximum zIndex is 5
ScenarioD_FirstPin(id) ==
    /\ lastCall' = [op |-> "pin", id |-> id]
    /\ Present(id)
    /\ \A i \in 1..Len(windows) : ~windows[i].isPinned
    /\ LargestZIndex(windows) = 5

\* pin(id) is called on a non-pinned window right after the pin that put
\* another window at zIndex 1005
ScenarioD_SecondPin(id) ==
    /\ lastCall.op = "pin" /\ lastCall.id # id
    /\ Present(lastCall.id)
    /\ Win(lastCall.id).isPinned /\ Win(lastCall.id).zIndex = 1005
    /\ LargestZIndex(windows) = 1005
    /\ lastCall' = [op |-> "pin", id |-> id]
    /\ Present(id) /\ ~Win(id).isPinned

\* unpin(id) is called on a pinned window while another window is still
\* pinned and the highest other non-pinned window is at zIndex 3
ScenarioD_Unpin(id) ==
    /\ lastCall' = [op |-> "unpin", id |-> id]
    /\ Present(id) /\ Win(id).isPinned
    /\ \E j \in 1..Len(windows) : windows[j].id # id /\ windows[j].isPinned
    /\ OtherNonPinnedZ(windows, id) # {}
    /\ \A z \in OtherNonPinnedZ(windows, id) : z <= 3
    /\ 3 \in OtherNonPinnedZ(windows, id)

(***************************************************************************)
(* C18 as the specification words it: with maximum zIndex 5, pin(w1) gives  *)
(* w1.zIndex = 1005, a following pin(w2) gives w2.zIndex = 1006, and        *)
(* unpin(w1) with w2 still pinned and the highest other non-pinned window   *)
(* at zIndex 3 gives w1.zIndex = 4.                                         *)
(***************************************************************************)
C18_Original ==
    [][\A id \in StackIds : \A i \in 1..Len(windows') :
          windows'[i].id = id
          => /\ ScenarioD_FirstPin(id) => windows'[i].zIndex = 1005
             /\ ScenarioD_SecondPin(id) => windows'[i].zIndex = 1006
             /\ ScenarioD_Unpin(id) => windows'[i].zIndex = 4]_vars

(***************************************************************************)
(* C18: each pin places the window 1000 above the current maximum: with     *)
(* maximum zIndex 5, pin(w1) gives w1.zIndex = 1005, a following pin(w2)    *)
(* gives w2.zIndex = 2005, and unpin(w1) with w2 still pinned and the       *)
(* highest other non-pinned window at zIndex 3 gives w1.zIndex = 4.         *)
(***************************************************************************)
C18_ScenarioD ==
    [][\A id \in StackIds : \A i \in 1..Len(windows') :
          windows'[i].id = id
          => /\ ScenarioD_FirstPin(id) => windows'[i].zIndex = 1005
             /\ ScenarioD_SecondPin(id) => windows'[i].zIndex = 2005
             /\ ScenarioD_Unpin(id) => windows'[i].zIndex = 4]_vars

\* the end of the scenario: the window pinned first is back at zIndex 4, above
\* the non-pinned window at 3, and the window pinned second is at 2005
C18_Witness ==
    /\ lastCall.op = "unpin"
    /\ Present(lastCall.id)
    /\ ~Win(lastCall.id).isPinned /\ Win(lastCall.id).zIndex = 4
    /\ \E j, k \in 1..Len(windows) :
          /\ windows[j].isPinned /\ windows[j].zIndex = 2005
          /\ ~windows[k].isPinned /\ windows[k].zIndex = 3
    /\ nextZIndex = 5

(***************************************************************************)
(* C19: from a fresh manager (no windows, nextZIndex = 1) the first open    *)
(* yields one focused window with zIndex 1 and nextZIndex 2; opening w1     *)
(* then w2 leaves w2 focused with zIndex 2; a following focus(w1) makes w1  *)
(* the focused window with zIndex 3 and nextZIndex 4.                       *)
(***************************************************************************)
C19_FreshManagerScenario ==
    /\ calls = 0 => (windows = <<>> /\ nextZIndex = 1)
    /\ (calls = 1 /\ lastCall.op = "open")
       => /\ Len(windows) = 1
          /\ windows[1].id = lastCall.id
          /\ windows[1].isFocused /\ windows[1].zIndex = 1
          /\ nextZIndex = 2
    /\ (calls = 2 /\ lastCall.op = "open" /\ Len(windows) = 2)
       => /\ windows[2].id = lastCall.id
          /\ windows[2].isFocused /\ windows[2].zIndex = 2
          /\ ~windows[1].isFocused /\ windows[1].zIndex = 1
    /\ (calls = 3 /\ Len(windows) = 2
          /\ lastCall = [op |-> "focus", id |-> windows[1].id])
       => /\ windows[1].isFocused /\ windows[1].zIndex = 3
          /\ ~windows[2].isFocused /\ windows[2].zIndex = 2
          /\ getFocusedWindow(State) = windows[1]
          /\ nextZIndex = 4

\* open(w1); open(w2); focus(w1) has run
C19_Witness ==
    /\ calls = 3
    /\ Len(windows) = 2
    /\ lastCall = [op |-> "focus", id |-> windows[1].id]
    /\ windows[1].zIndex = 3
    /\ nextZIndex = 4

\* the state each of the four state-setting actions assigns
StateSetBy ==
    [minimize |-> "minimized", maximize |-> "maximized",
     fullscreen |-> "fullscreen", unfullscreen |-> "normal"]

(***************************************************************************)
(* C20: minimize, maximize, fullscreen and unfullscreen on an existing id   *)
(* set only that window's state (minimized, maximized, fullscreen, normal   *)
(* respectively) from any current state; its isFocused, zIndex, isPinned,   *)
(* position and size, every other window, nextZIndex and containerSize are  *)
(* unchanged.                                                               *)
(***************************************************************************)
C20_StateActionsFrame ==
    [][\A id \in Ids :
          (lastCall'.op \in DOMAIN StateSetBy /\ lastCall'.id = id /\ Present(id))
          => /\ Len(windows') = Len(windows)
             /\ \A i \in 1..Len(windows) :
                   windows'[i] =
                      IF windows[i].id = id
                      THEN [windows[i] EXCEPT !.state = StateSetBy[lastCall'.op]]
                      ELSE windows[i]
             /\ nextZIndex' = nextZIndex
             /\ containerSize' = containerSize]_vars

\* the focused window was minimized and is still the focused one, at the top
C20_Witness ==
    /\ lastCall.op = "minimize"
    /\ Present(lastCall.id)
    /\ Win(lastCall.id).state = "minimized"
    /\ Win(lastCall.id).isFocused
    /\ Win(lastCall.id).zIndex = nextZIndex - 1
    /\ Len(windows) = 2

(***************************************************************************)
(* C21: move(id, p) and resize(id, s) on an existing id replace that        *)
(* window's position with p, respectively its size with s, verbatim,        *)
(* whatever the window's state is (normal, minimized, maximized,            *)
(* fullscreen); no other field, no other window, and neither nextZIndex nor *)
(* containerSize changes.                                                   *)
(***************************************************************************)
C21_MoveResizeVerbatim ==
    [][/\ \A id \in Ids :
             (lastCall' = [op |-> "move", id |-> id] /\ Present(id))
             => /\ \E p \in Positions :
                      windows' = [i \in 1..Len(windows) |->
                                     IF windows[i].id = id
                                     THEN [windows[i] EXCEPT !.position = p]
                                     ELSE windows[i]]
                /\ \A p \in Positions :
                      find(move(State, id, p).windows, id).position = p
                /\ nextZIndex' = nextZIndex
                /\ containerSize' = containerSize
       /\ \A id \in Ids :
             (lastCall' = [op |-> "resize", id |-> id] /\ Present(id))
             => /\ \E sz \in Sizes :
                      windows' = [i \in 1..Len(windows) |->
                                     IF windows[i].id = id
                                     THEN [windows[i] EXCEPT !.size = sz]
                                     ELSE windows[i]]
                /\ \A sz \in Sizes :
                      find(resize(State, id, sz).windows, id).size = sz
                /\ nextZIndex' = nextZIndex
                /\ containerSize' = containerSize]_vars

\* a maximized window was moved to the origin
C21_Witness ==
    /\ lastCall.op = "move"
    /\ Present(lastCall.id)
    /\ Win(lastCall.id).state = "maximized"
    /\ Win(lastCall.id).position = [x |-> 0, y |-> 0]
    /\ Win(lastCall.id).size = DefaultSize

(***************************************************************************)
(* C22: closeAll leaves the collection empty and closeByType(t) removes     *)
(* exactly the windows whose type is t; every remaining record (with its    *)
(* isFocused and zIndex), nextZIndex and containerSize are unchanged, so a  *)
(* window opened afterwards gets the zIndex the counter had before the      *)
(* close.                                                                   *)
(***************************************************************************)
C22_BulkCloseFrame ==
    [][/\ lastCall'.op = "closeAll"
          => /\ windows' = <<>>
             /\ nextZIndex' = nextZIndex
             /\ containerSize' = containerSize
       /\ lastCall'.op = "closeByType"
          => /\ \E t \in Types :
                   /\ \A i \in 1..Len(windows') : windows'[i].type # t
                   /\ \E keep \in SUBSET (1..Len(windows)) :
                         /\ keep = {i \in 1..Len(windows) : windows[i].type # t}
                         /\ Len(windows') = Cardinality(keep)
                         /\ \A i \in keep :
                               windows'[Cardinality({j \in keep : j <= i})]
                                  = windows[i]
             /\ nextZIndex' = nextZIndex
             /\ containerSize' = containerSize
       /\ lastCall'.op \in {"closeAll", "closeByType"}
          => \A t \in Types, id \in Ids :
                LET closed == [windows |-> windows',
                               containerSize |-> containerSize',
                               nextZIndex |-> nextZIndex']
                    after == open(closed, t, id, Nil, Nil)
                IN find(windows', id) = Nil
                   => after.windows[Len(after.windows)].zIndex = nextZIndex]_vars

\* closeByType removed the focused second window; the first one remains as it
\* was and the counter is still 3
C22_Witness ==
    /\ lastCall.op = "closeByType"
    /\ Len(windows) = 1
    /\ windows[1].zIndex = 1
    /\ ~windows[1].isFocused
    /\ nextZIndex = 3

\* the states a whole store action can leave from the present state
WholeActionOutcomes ==
    {open(State, type, id, Nil, Nil) : type \in Types, id \in Ids}
      \cup {focus(State, id) : id \in Ids}
      \cup {pin(State, id) : id \in Ids}
      \cup {unpin(State, id) : id \in Ids}

(***************************************************************************)
(* C23: each store action is atomic: every change of the store that a       *)
(* subscriber can see is the step from the state an action read to the      *)
(* state that action produces; there is no state in which windows has       *)
(* already been replaced by open, focus, pin or unpin while nextZIndex      *)
(* still holds its old value.                                               *)
(***************************************************************************)
C23_ActionsAtomic ==
    [][\E t \in WholeActionOutcomes :
          /\ windows' = t.windows
          /\ nextZIndex' = t.nextZIndex
          /\ containerSize' = t.containerSize]_vars

\* an action run by a subscriber between the two sets of open gave the second
\* window the zIndex of the first
C23_HalfDoneSeen ==
    /\ Len(pending) = 2
    /\ Len(windows) = 2
    /\ windows[1].zIndex = windows[2].zIndex

(***************************************************************************)
(* Vocabulary of the gesture properties.  A sample is a mousemove handled   *)
(* while a gesture is in progress; issued[k] holds the calls of             *)
(* listeners[k].                                                            *)
(***************************************************************************)
\* the event handled last was a sample of the resize gesture listeners[k]
ResizeSampleOf(k) ==
    /\ event.type = "mousemove"
    /\ k \in 1..Len(listeners)
    /\ listeners[k].kind = "resize"

\* the event handled last was a sample of the move gesture listeners[k]
MoveSampleOf(k) ==
    /\ event.type = "mousemove"
    /\ k \in 1..Len(listeners)
    /\ listeners[k].kind = "drag"

\* size and position sent to the store by the sample of listeners[k]
SentSize(k) == issued[k][1].arg
SentPosition(k) == issued[k][2].arg

\* pointer delta of the sample of listeners[k]
SampleDx(k) == event.pointer.x - listeners[k].initialPos.x
SampleDy(k) == event.pointer.y - listeners[k].initialPos.y

\* width and height of the sample of listeners[k] before the minimum applies
CandidateWidth(k) ==
    LET l == listeners[k] IN
    IF l.direction \in {"right", "top-right", "bottom-right"}
    THEN l.initialSize.width + SampleDx(k)
    ELSE IF l.direction \in {"left", "top-left", "bottom-left"}
    THEN l.initialSize.width - SampleDx(k)
    ELSE l.initialSize.width

CandidateHeight(k) ==
    LET l == listeners[k] IN
    IF l.direction \in {"bottom", "bottom-left", "bottom-right"}
    THEN l.initialSize.height + SampleDy(k)
    ELSE IF l.direction \in {"top", "top-left", "top-right"}
    THEN l.initialSize.height - SampleDy(k)
    ELSE l.initialSize.height

(***************************************************************************)
(* C24: for every sample of a resize gesture on a left edge or corner,      *)
(* position.x + size.width sent to the store equals the gesture-start       *)
(* position.x + size.width, and on a top edge or corner position.y +        *)
(* size.height equals its gesture-start value, for every pointer delta,     *)
(* whether or not the minimum-size clamp applied.                           *)
(***************************************************************************)
C24_FixedEdgeStays ==
    \A k \in 1..Len(listeners) :
        ResizeSampleOf(k)
        => LET l == listeners[k] IN
           /\ l.direction \in {"left", "top-left", "bottom-left"}
              => SentPosition(k).x + SentSize(k).width
                    = l.initialPosition.x + l.initialSize.width
           /\ l.direction \in {"top", "top-left", "top-right"}
              => SentPosition(k).y + SentSize(k).height
                    = l.initialPosition.y + l.initialSize.height

\* a top-left sample whose width and height were both clamped
C24_Witness ==
    /\ ResizeSampleOf(1)
    /\ listeners[1].direction = "top-left"
    /\ listeners[1].initialSize = DefaultSize
    /\ CandidateWidth(1) < 100 /\ CandidateHeight(1) < 50
    /\ SentPosition(1) # listeners[1].initialPosition
    /\ Win(listeners[1].id).position = SentPosition(1)

(***************************************************************************)
(* C25: for every sample of a resize gesture (any of the eight directions,  *)
(* any pointer delta) the size sent to the store has width >= 100 and       *)
(* height >= 50; when the candidate width (height) is below the minimum,    *)
(* the width (height) sent is exactly 100 (50).                             *)
(***************************************************************************)
C25_MinimumSize ==
    \A k \in 1..Len(listeners) :
        ResizeSampleOf(k)
        => /\ SentSize(k).width >= 100
           /\ SentSize(k).height >= 50
           /\ CandidateWidth(k) < 100 => SentSize(k).width = 100
           /\ CandidateHeight(k) < 50 => SentSize(k).height = 50
           /\ CandidateWidth(k) >= 100 => SentSize(k).width = CandidateWidth(k)
           /\ CandidateHeight(k) >= 50 => SentSize(k).height = CandidateHeight(k)

\* a sample with a negative candidate width that was sent as 100
C25_Witness ==
    /\ ResizeSampleOf(1)
    /\ listeners[1].direction = "right"
    /\ CandidateWidth(1) < 0
    /\ SentSize(1).width = 100
    /\ Win(listeners[1].id).size.width = 100

\* the sample of listeners[k] drags the left edge of a 400x300 window by dx
LeftEdgeSample(k, dx) ==
    /\ ResizeSampleOf(k)
    /\ listeners[k].direction = "left"
    /\ listeners[k].initialSize = [width |-> 400, height |-> 300]
    /\ SampleDx(k) = dx

(***************************************************************************)
(* C26 as the specification words it: resizing a 400x300 window by dragging *)
(* its left edge with dx = -450 yields the clamped width 100 and a          *)
(* position.x shifted by 300 in the negative-x direction relative to the    *)
(* position at drag start.                                                  *)
(***************************************************************************)
C26_Original ==
    \A k \in 1..Len(listeners) :
        LeftEdgeSample(k, -450)
        => /\ SentSize(k).width = 100
           /\ SentPosition(k).x = listeners[k].initialPosition.x - 300

(***************************************************************************)
(* C26: resizing a 400x300 window by dragging its left edge with dx = +450  *)
(* (towards the right edge) yields the clamped width 100 and a position.x   *)
(* shifted by 300 (= 400 - 100) in the positive-x direction relative to the *)
(* position at drag start; with dx = -450 the window grows to width 850 and *)
(* position.x shifts by 450 in the negative-x direction.                    *)
(***************************************************************************)
C26_ScenarioC ==
    \A k \in 1..Len(listeners) :
        /\ LeftEdgeSample(k, 450)
           => /\ SentSize(k).width = 100
              /\ SentPosition(k).x = listeners[k].initialPosition.x + 300
              /\ SentSize(k).height = 300
              /\ SentPosition(k).y = listeners[k].initialPosition.y
        /\ LeftEdgeSample(k, -450)
           => /\ SentSize(k).width = 850
              /\ SentPosition(k).x = listeners[k].initialPosition.x - 450

\* the left edge of the default window was dragged 450 to the right
C26_Witness ==
    /\ LeftEdgeSample(1, 450)
    /\ listeners[1].initialPosition = [x |-> 100, y |-> 100]
    /\ Win(listeners[1].id).size = [width |-> 100, height |-> 300]
    /\ Win(listeners[1].id).position = [x |-> 400, y |-> 100]

(***************************************************************************)
(* C27: for every sample of a resize gesture whose direction is right,      *)
(* bottom or bottom-right only the size changes: the position sent to the   *)
(* store is the position captured at gesture start, and the width is the    *)
(* start width + dx (for right), the height the start height + dy (for      *)
(* bottom), before the minimum applies.                                     *)
(***************************************************************************)
C27_RightBottomSizeOnly ==
    \A k \in 1..Len(listeners) :
        (ResizeSampleOf(k)
           /\ listeners[k].direction \in {"right", "bottom", "bottom-right"})
        => LET l == listeners[k]
               w == IF l.direction = "bottom" THEN l.initialSize.width
                    ELSE l.initialSize.width + SampleDx(k)
               h == IF l.direction = "right" THEN l.initialSize.height
                    ELSE l.initialSize.height + SampleDy(k)
           IN /\ SentPosition(k) = l.initialPosition
              /\ SentSize(k).width = IF w < 100 THEN 100 ELSE w
              /\ SentSize(k).height = IF h < 50 THEN 50 ELSE h

\* a bottom-right sample that grew the default window by 10 x 10
C27_Witness ==
    /\ ResizeSampleOf(1)
    /\ listeners[1].direction = "bottom-right"
    /\ SampleDx(1) = 10 /\ SampleDy(1) = 10
    /\ Win(listeners[1].id).size = [width |-> 410, height |-> 310]
    /\ Win(listeners[1].id).position = listeners[1].initialPosition

(***************************************************************************)
(* C28: the mouse-down that starts a move gesture captures the offset       *)
(* pointer position - window position; every pointer sample of the gesture  *)
(* sets the window's position to pointer position - that offset, with no    *)
(* clamping against containerSize, so position - pointer position is the    *)
(* same for every sample of one gesture.                                    *)
(***************************************************************************)
C28_MoveFollowsPointer ==
    [][/\ event'.type = "mousedown"
          => /\ Present(event'.id)
             /\ dragStart'[event'.id].x
                   = event'.pointer.x - Win(event'.id).position.x
             /\ dragStart'[event'.id].y
                   = event'.pointer.y - Win(event'.id).position.y
       /\ event'.type # "mousedown" => dragStart' = dragStart
       /\ \A k \in 1..Len(listeners) :
             (event'.type = "mousemove" /\ listeners[k].kind = "drag")
             => LET id == listeners[k].id
                    moved == find(windows', id)
                IN /\ issued'[k] =
                         <<[op |-> "move", id |-> id,
                            arg |-> [x |-> event'.pointer.x - dragStart[id].x,
                                     y |-> event'.pointer.y - dragStart[id].y]]>>
                   /\ moved.position.x - event'.pointer.x = 0 - dragStart[id].x
                   /\ moved.position.y - event'.pointer.y = 0 - dragStart[id].y
                   /\ event.type = "mousemove"
                      => (moved.position.x - event'.pointer.x
                            = Win(id).position.x - event.pointer.x
                          /\ moved.position.y - event'.pointer.y
                            = Win(id).position.y - event.pointer.y)]_vars

\* a sample of a move gesture took the window to negative coordinates
C28_Witness ==
    /\ MoveSampleOf(1)
    /\ calls = 4
    /\ Win(listeners[1].id).position.x < 0
    /\ Win(listeners[1].id).position.y < 0
    /\ Win(listeners[1].id).position.x
          = event.pointer.x - dragStart[listeners[1].id].x
    /\ dragStart[listeners[1].id] # [x |-> 0, y |-> 0]

(***************************************************************************)
(* C29: every sample of a resize gesture issues exactly one resize call     *)
(* followed by exactly one move call on the store for the same window, in   *)
(* that order, for every direction, also when the position or the size does *)
(* not change; an arrow key on a resize handle of a window, as the windows  *)
(* are after an open, issues the same pair.                                 *)
(***************************************************************************)
C29_ResizeThenMove ==
    /\ event.type = "mousemove" => Len(issued) = Len(listeners)
    /\ \A k \in 1..Len(listeners) :
          ResizeSampleOf(k)
          => /\ Len(issued[k]) = 2
             /\ issued[k][1].op = "resize" /\ issued[k][1].id = listeners[k].id
             /\ issued[k][2].op = "move" /\ issued[k][2].id = listeners[k].id
             /\ Present(listeners[k].id)
                => /\ Win(listeners[k].id).size = SentSize(k)
                   /\ Win(listeners[k].id).position = SentPosition(k)
    /\ event.type = "open"
       => \A i \in 1..Len(windows), direction \in Directions, key \in ArrowKeys,
             shiftKey \in BOOLEAN :
          LET cs == keyDownCalls(windows[i], direction, key, shiftKey)
          IN /\ Len(cs) = 2
             /\ cs[1].op = "resize" /\ cs[1].id = windows[i].id
             /\ cs[2].op = "move" /\ cs[2].id = windows[i].id

\* a sample of a right-edge gesture with the pointer at the start point: size
\* and position are sent as they were
C29_Witness ==
    /\ ResizeSampleOf(1)
    /\ listeners[1].direction = "right"
    /\ SampleDx(1) = 0 /\ SampleDy(1) = 0
    /\ listeners[1].initialSize = DefaultSize
    /\ issued = <<(<<[op |-> "resize", id |-> listeners[1].id,
                      arg |-> listeners[1].initialSize],
                     [op |-> "move", id |-> listeners[1].id,
                      arg |-> listeners[1].initialPosition]>>)>>

(***************************************************************************)
(* C30: the pointer release ends every move and resize gesture; pointer     *)
(* moves after it cause no move or resize call; a following gesture, on the *)
(* same or on another window, starts from the pointer position and the      *)
(* window size and position at its own mouse-down, and its samples are      *)
(* computed from those alone.                                               *)
(***************************************************************************)
C30_GestureScoped ==
    [][/\ event'.type = "mouseup"
          => /\ listeners' = <<>>
             /\ \A id \in Ids : ~isDragging'[id]
       /\ (event'.type = "mousemove" /\ listeners = <<>>)
          => /\ issued' = <<>>
             /\ windows' = windows
             /\ nextZIndex' = nextZIndex
       /\ event'.type = "resizedown"
          => /\ Present(event'.id)
             /\ listeners' =
                   <<[kind |-> "resize", id |-> event'.id,
                      direction |-> event'.direction,
                      initialPos |-> event'.pointer,
                      initialSize |-> Win(event'.id).size,
                      initialPosition |-> Win(event'.id).position]>>
       /\ event'.type = "mousedown"
          => /\ Len(listeners') = 1
             /\ listeners'[1].kind = "drag" /\ listeners'[1].id = event'.id
             /\ isDragging'[event'.id]
             /\ dragStart'[event'.id] =
                   [x |-> event'.pointer.x - Win(event'.id).position.x,
                    y |-> event'.pointer.y - Win(event'.id).position.y]
       /\ \A k \in 1..Len(listeners) :
             (event'.type = "mousemove" /\ listeners[k].kind = "resize")
             => LET l == listeners[k]
                    r == resizeSample(l.direction, l.initialSize,
                                      l.initialPosition,
                                      event'.pointer.x - l.initialPos.x,
                                      event'.pointer.y - l.initialPos.y)
                IN issued'[k] = <<[op |-> "resize", id |-> l.id, arg |-> r.size],
                                  [op |-> "move", id |-> l.id,
                                   arg |-> r.position]>>]_vars

\* a pointer move after the release of a resize gesture that had changed the
\* window: nothing is called
C30_Witness ==
    /\ event.type = "mousemove"
    /\ listeners = <<>>
    /\ issued = <<>>
    /\ \A id \in Ids : ~isDragging[id]
    /\ Len(windows) = 1
    /\ windows[1].size.width = 850
    /\ calls = 5

(***************************************************************************)
(* C34: in every reachable state no two non-pinned windows have the same    *)
(* zIndex, for any sequence of open, close, focus, pin and unpin.           *)
(***************************************************************************)
C34_NonPinnedDistinct ==
    \A i, j \in 1..Len(windows) :
        (i # j /\ ~windows[i].isPinned /\ ~windows[j].isPinned)
        => windows[i].zIndex # windows[j].zIndex

\* three non-pinned windows, the last call an unpin that put its window just
\* above the other two
C34_Witness ==
    /\ lastCall.op = "unpin"
    /\ Len(windows) = 3
    /\ \A i \in 1..3 : ~windows[i].isPinned
    /\ \A i \in 1..3 :
          windows[i].id # lastCall.id
          => Win(lastCall.id).zIndex > windows[i].zIndex
    /\ \E i \in 1..3 : Win(lastCall.id).zIndex = windows[i].zIndex + 1

\* the ids of the focused windows
FocusedIds(ws) == {ws[i].id : i \in {j \in 1..Len(ws) : ws[j].isFocused}}

(***************************************************************************)
(* C35: pin(id) and unpin(id) never change isFocused of any window: the set *)
(* of focused windows is the same after the call as before, also when the   *)
(* pinned or unpinned window is not the focused one.                        *)
(***************************************************************************)
C35_PinKeepsFocus ==
    [][lastCall'.op \in {"pin", "unpin"}
       => /\ Len(windows') = Len(windows)
          /\ \A i \in 1..Len(windows) :
                /\ windows'[i].id = windows[i].id
                /\ windows'[i].isFocused = windows[i].isFocused
          /\ FocusedIds(windows') = FocusedIds(windows)]_vars

\* a window that is not the focused one was pinned; the focused one stays so
C35_Witness ==
    /\ lastCall.op = "pin"
    /\ Present(lastCall.id)
    /\ Win(lastCall.id).isPinned
    /\ ~Win(lastCall.id).isFocused
    /\ nextZIndex = Win(lastCall.id).zIndex + 1
    /\ FocusedIds(windows) # {}
    /\ \A id \in FocusedIds(windows) : ~Win(id).isPinned

\* the store state with window id in state normal and all else as it is
WithStateNormal(id) ==
    [State EXCEPT !.windows =
        [i \in 1..Len(windows) |->
            IF windows[i].id = id
            THEN [windows[i] EXCEPT !.state = "normal"] ELSE windows[i]]]

(***************************************************************************)
(* C36: for a window in state normal, maximize(id) followed by              *)
(* unfullscreen(id), and fullscreen(id) followed by unfullscreen(id),       *)
(* return the whole manager state to what it was before; the previous state *)
(* is not remembered, so the same sequence on a minimized window ends in    *)
(* state normal, not minimized.                                             *)
(***************************************************************************)
C36_RestoreToNormal ==
    [][/\ \A id \in Ids :
             (lastCall' = [op |-> "unfullscreen", id |-> id] /\ Present(id))
             => /\ find(windows', id).state = "normal"
                /\ windows' = WithStateNormal(id).windows
                /\ nextZIndex' = nextZIndex
       /\ \A id \in Ids :
             (lastCall'.op \in {"open", "minimize"} /\ lastCall'.id = id
                /\ find(windows', id) # Nil)
             => LET before == [windows |-> windows',
                               containerSize |-> containerSize',
                               nextZIndex |-> nextZIndex']
                    viaMax == unfullscreen(maximize(before, id), id)
                    viaFull == unfullscreen(fullscreen(before, id), id)
                IN IF find(windows', id).state = "normal"
                   THEN viaMax = before /\ viaFull = before
                   ELSE /\ find(viaMax.windows, id).state = "normal"
                        /\ find(viaFull.windows, id).state = "normal"
                        /\ viaMax # before /\ viaFull # before]_vars

\* open; maximize or fullscreen; unfullscreen: the state is that after the open
C36_Witness ==
    /\ lastCall.op = "unfullscreen"
    /\ calls = 3
    /\ Len(windows) = 1
    /\ windows[1].id = lastCall.id
    /\ windows[1].state = "normal"
    /\ windows[1].isFocused /\ windows[1].zIndex = 1
    /\ nextZIndex = 2

\* the change of width an arrow key asks for on a handle, before the minimum
KeyDeltaWidth(direction, key, step) ==
    IF direction \in {"right", "top-right", "bottom-right"}
    THEN (IF key = "ArrowRight" THEN step
          ELSE IF key = "ArrowLeft" THEN 0 - step ELSE 0)
    ELSE IF direction \in {"left", "top-left", "bottom-left"}
    THEN (IF key = "ArrowLeft" THEN step
          ELSE IF key = "ArrowRight" THEN 0 - step ELSE 0)
    ELSE 0

\* the change of height an arrow key asks for on a handle, before the minimum
KeyDeltaHeight(direction, key, step) ==
    IF direction \in {"bottom", "bottom-left", "bottom-right"}
    THEN (IF key = "ArrowDown" THEN step
          ELSE IF key = "ArrowUp" THEN 0 - step ELSE 0)
    ELSE IF direction \in {"top", "top-left", "top-right"}
    THEN (IF key = "ArrowUp" THEN step
          ELSE IF key = "ArrowDown" THEN 0 - step ELSE 0)
    ELSE 0

(***************************************************************************)
(* C33: each arrow-key press on a resize handle changes the size by a fixed *)
(* step (1, or 10 with Shift held) along the handle's axis from the         *)
(* window's current size and position, and applies the rules of the pointer *)
(* gesture: width >= 100 and height >= 50 after the press, and for left and *)
(* top handles position.x + size.width (position.y + size.height) is the    *)
(* same after the press as before it; on the other handles the position     *)
(* does not change.                                                         *)
(***************************************************************************)
C33_ArrowKeyResize ==
    [][event'.type = "keydown"
       => LET old == Win(event'.id)
              new == find(windows', event'.id)
              step == IF event'.shiftKey THEN 10 ELSE 1
              w == old.size.width
                     + KeyDeltaWidth(event'.direction, event'.key, step)
              h == old.size.height
                     + KeyDeltaHeight(event'.direction, event'.key, step)
          IN /\ Present(event'.id)
             /\ new.size.width = (IF w < 100 THEN 100 ELSE w)
             /\ new.size.height = (IF h < 50 THEN 50 ELSE h)
             /\ IF event'.direction \in {"left", "top-left", "bottom-left"}
                THEN new.position.x + new.size.width
                        = old.position.x + old.size.width
                ELSE new.position.x = old.position.x
             /\ IF event'.direction \in {"top", "top-left", "top-right"}
                THEN new.position.y + new.size.height
                        = old.position.y + old.size.height
                ELSE new.position.y = old.position.y
             /\ new = [old EXCEPT !.size = new.size, !.position = new.position]
             /\ nextZIndex' = nextZIndex]_vars

\* Shift + ArrowLeft on the top-left handle of the default window: 10 wider,
\* 10 further left
C33_Witness ==
    /\ event.type = "keydown"
    /\ event.direction = "top-left" /\ event.key = "ArrowLeft" /\ event.shiftKey
    /\ Present(event.id)
    /\ Win(event.id).size = [width |-> 410, height |-> 300]
    /\ Win(event.id).position = [x |-> 90, y |-> 100]

(***************************************************************************)
(* C37: within one pointer resize gesture the size and position sent for a  *)
(* sample depend only on the values captured at gesture start and on the    *)
(* pointer location, not on earlier samples: a sample with the pointer back *)
(* at the start point sends the gesture-start size and position whenever    *)
(* the start size is at least 100 x 50, whatever the sample before it left. *)
(***************************************************************************)
C37_SampleFromStartOnly ==
    [][\A k \in 1..Len(listeners) :
          (event'.type = "mousemove" /\ listeners[k].kind = "resize")
          => LET l == listeners[k] IN
             /\ listeners' = listeners
             /\ (event'.pointer = l.initialPos
                   /\ l.initialSize.width >= 100 /\ l.initialSize.height >= 50)
                => /\ issued'[k][1].arg = l.initialSize
                   /\ issued'[k][2].arg = l.initialPosition
                   /\ find(windows', l.id).size = l.initialSize
                   /\ find(windows', l.id).position = l.initialPosition
             /\ event.type = "mousemove"
                => \A p \in Pointers :
                      LET dx == p.x - l.initialPos.x
                          dy == p.y - l.initialPos.y
                      IN event'.pointer = p
                         => /\ issued'[k][1].arg =
                                  resizeSample(l.direction, l.initialSize,
                                               l.initialPosition, dx, dy).size
                            /\ issued'[k][2].arg =
                                  resizeSample(l.direction, l.initialSize,
                                               l.initialPosition, dx,
                                               dy).position]_vars

\* after other samples of a top-left gesture the pointer is back at the start
\* point and the window has its gesture-start size and position again
C37_Witness ==
    /\ ResizeSampleOf(1)
    /\ calls = 5
    /\ Len(windows) = 1
    /\ listeners[1].direction = "top-left"
    /\ SampleDx(1) = 0 /\ SampleDy(1) = 0
    /\ listeners[1].initialSize = DefaultSize
    /\ Win(listeners[1].id).size = DefaultSize
    /\ Win(listeners[1].id).position = listeners[1].initialPosition

\* the calls the handling of the last event sent to the store
IssuedCalls == flatten(issued)

(***************************************************************************)
(* C31: when a window is unmounted (closed) while a move or resize gesture  *)
(* on it is in progress, the gesture is cancelled: no later pointer sample  *)
(* of the gesture calls move or resize on the store for the unmounted       *)
(* window, and a window opened afterwards under the same id is left as it   *)
(* was opened by the next sample (no gesture can have started on it yet).   *)
(***************************************************************************)
C31_UnmountCancelsGesture ==
    [][event'.type = "mousemove"
         => /\ \A k \in 1..Len(IssuedCalls') : Present(IssuedCalls'[k].id)
            /\ (event.type = "open"
                  => find(windows', event.id) = Win(event.id))]_vars

(***************************************************************************)
(* C32: a pointer sample that arrives while the window of its gesture is    *)
(* absent from the collection leaves the manager state unchanged: the       *)
(* absent window is not recreated, and no window's position, size, focus or *)
(* zIndex changes, nor the counter or the container size.                   *)
(***************************************************************************)
C32_AbsentSampleNoChange ==
    [][event'.type = "mousemove"
         => /\ \A id \in Ids : ~Present(id) => find(windows', id) = Nil
            /\ (\A k \in 1..Len(listeners) : ~Present(listeners[k].id))
                  => /\ windows' = windows
                     /\ nextZIndex' = nextZIndex
                     /\ containerSize' = containerSize
            /\ \A id \in Ids :
                  (Present(id) /\ \A k \in 1..Len(listeners) :
                                      listeners[k].id # id)
                     => find(windows', id) = Win(id)]_vars

\* a sample of a resize gesture on a closed window sent resize and move with
\* a size other than the default while another window, of the default size,
\* was open
C32_Witness ==
    /\ event.type = "mousemove"
    /\ Len(windows) = 1
    /\ Len(IssuedCalls) = 2
    /\ ~Present(IssuedCalls[1].id)
    /\ IssuedCalls[1].op = "resize"
    /\ IssuedCalls[1].arg # DefaultSize
    /\ IssuedCalls[2].op = "move"
    /\ windows[1].size = DefaultSize

====
